---- MODULE Spec2Model ----
(***************************************************************************)
(* A model of the penny Python sandbox (apps/sandbox/python):              *)
(*   sandbox_env.py  SandboxEnvironment   - the capability policy          *)
(*   import_hook.py  SandboxModuleLoader  - attribute filtering on load    *)
(*   import_hook.py  ImportHook           - the meta-path finder           *)
(*   runtime.py      SandboxRuntime       - execute_code/execution_context *)
(* Each component has its own specification (SpecPolicy, SpecLoader,       *)
(* SpecHook, SpecRun); the variables of the other components stay at their *)
(* constructed values.                                                     *)
(***************************************************************************)
EXTENDS Integers, Sequences, FiniteSets, TLC

VARIABLES
    allowed_modules,    \* SandboxEnvironment.allowed_modules: name -> attribute list
    blocked_modules,    \* SandboxEnvironment.blocked_modules: set of names
    ret,                \* the last policy call and what it returned
    heap,               \* module objects: object id -> namespace (__dict__)
    loader,             \* the SandboxModuleLoader under test and its exec_module call
    import_cache,       \* ImportHook.import_cache: name -> spec
    import_count,       \* ImportHook.import_count
    attempted_imports,  \* ImportHook.attempted_imports
    blocked_imports,    \* ImportHook.blocked_imports
    meta_path,          \* sys.meta_path: the resolver chain, a sequence of finders
    hook_ret,           \* the last ImportHook call and its outcome
    run,                \* SandboxRuntime: the execute_code call in progress and the process state
    proc                \* the rest of the process: session files, hooks registered by hand, threads

envVars    == <<allowed_modules, blocked_modules>>
loaderVars == <<heap, loader>>
hookVars   == <<import_cache, import_count, attempted_imports, blocked_imports,
                meta_path, hook_ret>>
vars == <<allowed_modules, blocked_modules, ret, heap, loader, import_cache,
          import_count, attempted_imports, blocked_imports, meta_path,
          hook_ret, run, proc>>

(***************************************************************************)
(* Bounds                                                                  *)
(***************************************************************************)
\* the largest number of entries of the allow and deny tables together that
\* SpecPolicy draws
MaxEntries == 2

\* the number of execute_code calls SpecRun makes on one runtime
MaxRuns == 2

\* the import ceiling the model gives the hook: ImportHook.__init__ sets 100
MaxImports == 3

\* the largest number of ImportHook instances SpecChain creates besides the
\* hook of the first runtime
MaxHooks == 2

\* the plot limit the model gives the handler: OutputHandler.__init__ sets 20
MaxPlots == 2

(***************************************************************************)
(* Module names are dotted names, modelled as the sequence of their parts  *)
(* ('scipy.sparse.linalg' is <<"scipy", "sparse", "linalg">>).             *)
(***************************************************************************)
ModuleNames ==
    { <<"json">>, <<"json", "decoder">>,
      <<"os">>, <<"os", "path">>,
      <<"scipy">>, <<"scipy", "sparse">>, <<"scipy", "sparse", "linalg">>,
      <<"requests">> }

\* attribute lists a table entry can hold; '*' is the wildcard marker
AttrLists ==
    { {"*"}, {"loads", "dumps"}, {"loads"}, {}, {"*", "loads"} }

\* Optional[List[str]]
NoneAttrs == [some |-> FALSE, val |-> {}]
SomeAttrs(l) == [some |-> TRUE, val |-> l]

\* '.'.join(parts[:i]) for i = 1 .. len(parts)
Prefixes(module_name) ==
    { SubSeq(module_name, 1, i) : i \in 1..Len(module_name) }


(***************************************************************************)
(* sandbox_env.py: the capability policy                                   *)
(***************************************************************************)
\* the tables SandboxEnvironment.__init__ builds, restricted to ModuleNames
DefaultAllowedModules ==
    ( <<"json">> :> {"loads", "dumps"} ) @@ ( <<"scipy">> :> {"*"} )

DefaultBlockedModules == { <<"os">> }

\* the loop "for i in range(len(parts))" from position i on: the prefixes are
\* visited from the shortest (parts[:1]) to the full name
RECURSIVE ParentWalk(_, _)
ParentWalk(module_name, i) ==
    IF i > Len(module_name) THEN FALSE
    ELSE LET parent_module == SubSeq(module_name, 1, i) IN
         IF parent_module \in blocked_modules THEN FALSE
         ELSE IF parent_module \in DOMAIN allowed_modules THEN TRUE
         ELSE ParentWalk(module_name, i + 1)

\* a slip: the exact allow entry is looked up before the deny table
is_module_allowed_AllowFirst(module_name) ==
    IF module_name \in DOMAIN allowed_modules THEN TRUE
    ELSE IF module_name \in blocked_modules THEN FALSE
    ELSE ParentWalk(module_name, 1)

\* a slip: unknown modules are let through
is_module_allowed_DefaultAllow(module_name) ==
    IF module_name \in blocked_modules THEN FALSE
    ELSE IF module_name \in DOMAIN allowed_modules THEN TRUE
    ELSE IF \A p \in Prefixes(module_name) :
                 p \notin blocked_modules /\ p \notin DOMAIN allowed_modules
         THEN TRUE
         ELSE ParentWalk(module_name, 1)

is_module_allowed(module_name) ==
    IF module_name \in blocked_modules THEN FALSE
    ELSE IF module_name \in DOMAIN allowed_modules THEN TRUE
    ELSE ParentWalk(module_name, 1)

get_allowed_attributes(module_name) ==
    IF module_name \in DOMAIN allowed_modules
    THEN LET attrs == allowed_modules[module_name] IN
         IF "*" \in attrs THEN NoneAttrs ELSE SomeAttrs(attrs)
    ELSE NoneAttrs

\* the tables a SandboxEnvironment can be configured with, MaxEntries entries
\* at most
KeySets == { D \in SUBSET ModuleNames : Cardinality(D) <= MaxEntries }

AllowTables == UNION { [D -> AttrLists] : D \in KeySets }

NoRet == [op |-> "none", name |-> <<>>, allowed |-> FALSE, attrs |-> NoneAttrs]

IsModuleAllowedCall ==
    /\ \E module_name \in ModuleNames :
          ret' = [op |-> "is_module_allowed", name |-> module_name,
                  allowed |-> is_module_allowed(module_name), attrs |-> NoneAttrs]
    /\ UNCHANGED <<envVars, loaderVars, hookVars, run, proc>>

GetAllowedAttributesCall ==
    /\ \E module_name \in ModuleNames :
          ret' = [op |-> "get_allowed_attributes", name |-> module_name,
                  allowed |-> is_module_allowed(module_name),
                  attrs |-> get_allowed_attributes(module_name)]
    /\ UNCHANGED <<envVars, loaderVars, hookVars, run, proc>>

(***************************************************************************)
(* import_hook.py: SandboxModuleLoader                                     *)
(* Module objects live on a heap, so that "the filtered module is the      *)
(* module itself" is visible: a namespace maps every attribute name to its *)
(* value or to Absent.                                                     *)
(***************************************************************************)
ModuleTypeAttrs == {"__name__", "__doc__", "__package__", "__loader__", "__spec__"}

PublicAttrs == {"loads", "dumps", "JSONDecoder"}

AttrNames == ModuleTypeAttrs \cup PublicAttrs

Absent == <<"<absent>">>
PyNone == <<"None">>
Obj(x) == <<"obj", x>>
Str(module_name) == <<"str">> \o module_name

EmptyNamespace == [a \in AttrNames |-> Absent]

\* types.ModuleType(name).__dict__
ModuleType(module_name) ==
    [a \in AttrNames |->
        IF a = "__name__" THEN Str(module_name)
        ELSE IF a \in ModuleTypeAttrs THEN PyNone
        ELSE Absent]

\* the namespaces the original loader's exec_module can leave in the module
ProducedNamespaces(module_name) ==
    { [a \in AttrNames |->
          IF a = "__name__" THEN Str(module_name)
          ELSE IF a = "__doc__" THEN doc
          ELSE IF a \in ModuleTypeAttrs THEN Obj(a)
          ELSE IF a \in present THEN Obj(a) ELSE Absent]
      : doc \in {PyNone, Obj("__doc__")}, present \in SUBSET PublicAttrs }

\* a slip: every attribute of the module is copied, listed or not
filter_module_attributes_CopyAll(h, module, module_name) ==
    LET allowed_attrs == get_allowed_attributes(module_name) IN
    IF ~allowed_attrs.some THEN [heap |-> h, obj |-> module]
    ELSE [heap |-> [h EXCEPT !["filtered_module"] =
                      [a \in AttrNames |->
                          IF h[module][a] # Absent THEN h[module][a]
                          ELSE ModuleType(module_name)[a]]],
          obj |-> "filtered_module"]

\* returns the heap and the object returned: the module itself, or a new
\* ModuleType holding the listed attributes the module has
filter_module_attributes(h, module, module_name) ==
    LET allowed_attrs == get_allowed_attributes(module_name) IN
    IF ~allowed_attrs.some THEN [heap |-> h, obj |-> module]
    ELSE [heap |-> [h EXCEPT !["filtered_module"] =
                      [a \in AttrNames |->
                          IF a \in allowed_attrs.val /\ h[module][a] # Absent
                          THEN h[module][a]
                          ELSE ModuleType(module_name)[a]]],
          obj |-> "filtered_module"]

\* dict.clear() of the namespace of object o
DictClear(h, o) == [h EXCEPT ![o] = EmptyNamespace]

\* h[o].update(h[src]), read from the heap as it is at the time of the call
DictUpdate(h, o, src) ==
    [h EXCEPT ![o] = [a \in AttrNames |->
                        IF h[src][a] # Absent THEN h[src][a] ELSE h[o][a]]]

\* SandboxModuleLoader.exec_module(module): the heap it leaves
exec_module(h, ld) ==
    IF ld.has_exec_module
    THEN LET loaded   == [h EXCEPT !["module"] = ld.produced]
             filtered == filter_module_attributes(loaded, "module", ld.name)
             cleared  == DictClear(filtered.heap, "module")
         IN  DictUpdate(cleared, "module", filtered.obj)
    ELSE h

NoLoader ==
    [pc |-> "none", name |-> <<>>, has_exec_module |-> FALSE,
     produced |-> EmptyNamespace]

NoHeap == [o \in {"module", "filtered_module"} |-> EmptyNamespace]

ExecModuleCall ==
    /\ loader.pc = "created"
    /\ heap' = exec_module(heap, loader)
    /\ loader' = [loader EXCEPT !.pc = "done"]
    /\ UNCHANGED <<envVars, ret, hookVars, run, proc>>

(***************************************************************************)
(* import_hook.py: ImportHook                                              *)
(***************************************************************************)
\* ImportHook.max_imports
max_imports == MaxImports

\* the names resolved through the hook
HookNames == { <<"json">>, <<"os">>, <<"scipy", "sparse">> }

\* find_spec appends to attempted_imports on every call, without limit: the
\* model stops calling it at this length
MaxAttempts == max_imports + 2

\* the finders of the chain other than the hook, in chain order
OtherFinders == SelectSeq(meta_path, LAMBDA f : f # "hook")

\* what the rest of the chain answers for a name: the position (in
\* OtherFinders) of the first finder that knows it, 0 when none does, and
\* whether the spec it returns carries a loader
Answers ==
    { [finder |-> k, loader |-> l] :
        k \in 0..Len(OtherFinders), l \in BOOLEAN }

NoSpec == [name |-> <<>>, id |-> 0, loader |-> "None"]

\* ModuleSpec objects referenced by the cache or by the last caller
LiveSpecIds ==
    { import_cache[n].id : n \in DOMAIN import_cache } \cup { hook_ret.spec.id }

FreshSpecId == CHOOSE i \in 1..(Cardinality(LiveSpecIds) + 1) : i \notin LiveSpecIds

\* cleared: the names clear_cache removed, for a clear_cache call
HookRet(op, fullname, outcome, spec, delegated) ==
    [op |-> op, name |-> fullname, outcome |-> outcome, spec |-> spec,
     delegated |-> delegated, cleared |-> {}]

\* a slip: the ceiling is tested one call too late
LimitExceeded_OffByOne(count) == count > max_imports + 1

\* a slip: the ceiling is never enforced
LimitExceeded_Never(count) == FALSE

\* line 66: if self.import_count > self.max_imports
LimitExceeded(count) == count > max_imports

\* a slip: the resolved spec is not cached
CacheStore_Skip(cache, fullname, spec) == cache

\* line 97: self.import_cache[fullname] = spec
CacheStore(cache, fullname, spec) == (fullname :> spec) @@ cache

\* a slip: the name is resolved through the chain (and cached) before the
\* policy is consulted
find_spec_ResolveFirst(fullname, answer) ==
    LET delegated == IF answer.finder = 0 THEN Len(OtherFinders) ELSE answer.finder
        spec == [name |-> fullname, id |-> FreshSpecId,
                 loader |-> IF answer.loader THEN "SandboxModuleLoader" ELSE "None"]
    IN
    /\ import_count' = import_count + 1
    /\ attempted_imports' = Append(attempted_imports, fullname)
    /\ IF import_count + 1 > max_imports
       THEN /\ hook_ret' = HookRet("find_spec", fullname, "ImportLimitExceeded", NoSpec, 0)
            /\ UNCHANGED <<blocked_imports, import_cache>>
       ELSE IF answer.finder # 0 /\ fullname \notin DOMAIN import_cache
       THEN /\ import_cache' = (fullname :> spec) @@ import_cache
            /\ IF ~is_module_allowed(fullname)
               THEN /\ blocked_imports' = Append(blocked_imports, fullname)
                    /\ hook_ret' = HookRet("find_spec", fullname, "ImportDenied", NoSpec, delegated)
               ELSE /\ hook_ret' = HookRet("find_spec", fullname, "resolved", spec, delegated)
                    /\ UNCHANGED blocked_imports
       ELSE IF ~is_module_allowed(fullname)
       THEN /\ blocked_imports' = Append(blocked_imports, fullname)
            /\ hook_ret' = HookRet("find_spec", fullname, "ImportDenied", NoSpec, 0)
            /\ UNCHANGED import_cache
       ELSE IF fullname \in DOMAIN import_cache
       THEN /\ hook_ret' = HookRet("find_spec", fullname, "cached", import_cache[fullname], 0)
            /\ UNCHANGED <<blocked_imports, import_cache>>
       ELSE /\ hook_ret' = HookRet("find_spec", fullname, "not_found", NoSpec, delegated)
            /\ UNCHANGED <<blocked_imports, import_cache>>
    /\ UNCHANGED <<envVars, ret, loaderVars, meta_path, run, proc>>

\* ImportHook.find_spec(fullname, path, target), the rest of the chain
\* answering `answer`
find_spec(fullname, answer) ==
    LET delegated == IF answer.finder = 0 THEN Len(OtherFinders) ELSE answer.finder
        spec == [name |-> fullname, id |-> FreshSpecId,
                 loader |-> IF answer.loader THEN "SandboxModuleLoader" ELSE "None"]
    IN
    /\ import_count' = import_count + 1
    /\ attempted_imports' = Append(attempted_imports, fullname)
    /\ IF LimitExceeded(import_count + 1)
       THEN /\ hook_ret' = HookRet("find_spec", fullname, "ImportLimitExceeded", NoSpec, 0)
            /\ UNCHANGED <<blocked_imports, import_cache>>
       ELSE IF ~is_module_allowed(fullname)
       THEN /\ blocked_imports' = Append(blocked_imports, fullname)
            /\ hook_ret' = HookRet("find_spec", fullname, "ImportDenied", NoSpec, 0)
            /\ UNCHANGED import_cache
       ELSE IF fullname \in DOMAIN import_cache
       THEN /\ hook_ret' = HookRet("find_spec", fullname, "cached", import_cache[fullname], 0)
            /\ UNCHANGED <<blocked_imports, import_cache>>
       ELSE IF answer.finder = 0
       THEN /\ hook_ret' = HookRet("find_spec", fullname, "not_found", NoSpec, delegated)
            /\ UNCHANGED <<blocked_imports, import_cache>>
       ELSE /\ import_cache' = CacheStore(import_cache, fullname, spec)
            /\ hook_ret' = HookRet("find_spec", fullname, "resolved", spec, delegated)
            /\ UNCHANGED blocked_imports
    /\ UNCHANGED <<envVars, ret, loaderVars, meta_path, run, proc>>

FindSpecCall ==
    /\ Len(attempted_imports) < MaxAttempts
    /\ \E fullname \in HookNames, answer \in Answers : find_spec(fullname, answer)

\* a slip: clear_cache leaves the entries in place
clear_cache_KeepEntries ==
    /\ import_cache' = import_cache
    /\ hook_ret' = [HookRet("clear_cache", <<>>, "returned", NoSpec, 0)
                      EXCEPT !.cleared = DOMAIN import_cache]
    /\ UNCHANGED <<import_count, attempted_imports, blocked_imports, meta_path,
                   envVars, ret, loaderVars, run, proc>>

\* ImportHook.clear_cache()
clear_cache ==
    /\ import_cache' = [n \in {} |-> NoSpec]
    /\ hook_ret' = [HookRet("clear_cache", <<>>, "returned", NoSpec, 0)
                      EXCEPT !.cleared = DOMAIN import_cache]
    /\ UNCHANGED <<import_count, attempted_imports, blocked_imports, meta_path,
                   envVars, ret, loaderVars, run, proc>>

\* a slip: the logs are cleared and the counter is not
reset_counters_KeepCount ==
    /\ import_count' = import_count
    /\ attempted_imports' = <<>>
    /\ blocked_imports' = <<>>
    /\ hook_ret' = HookRet("reset_counters", <<>>, "returned", NoSpec, 0)
    /\ UNCHANGED <<import_cache, meta_path, envVars, ret, loaderVars, run, proc>>

\* ImportHook.reset_counters()
reset_counters ==
    /\ import_count' = 0
    /\ attempted_imports' = <<>>
    /\ blocked_imports' = <<>>
    /\ hook_ret' = HookRet("reset_counters", <<>>, "returned", NoSpec, 0)
    /\ UNCHANGED <<import_cache, meta_path, envVars, ret, loaderVars, run, proc>>

\* the hook after ImportHook() and sys.meta_path.insert(0, hook)
HookConstructed ==
    /\ import_cache = [n \in {} |-> NoSpec]
    /\ import_count = 0
    /\ attempted_imports = <<>>
    /\ blocked_imports = <<>>
    /\ meta_path = <<"hook", "BuiltinImporter", "PathFinder">>
    /\ hook_ret = HookRet("init", <<>>, "returned", NoSpec, 0)

(***************************************************************************)
(* runtime.py: SandboxRuntime.execute_code and execution_context           *)
(* run.pc names the statement that runs next; an interrupt is delivered    *)
(* between two statements and raises at that position.                     *)
(***************************************************************************)
\* what the submitted code does: completes, or raises this exception
CodeBehaviours ==
    { "ok", "ZeroDivisionError", "ImportError", "TimeoutError", "MemoryError",
      "SystemExit", "KeyboardInterrupt" }

\* the exception classes that derive from Exception; SystemExit and
\* KeyboardInterrupt derive from BaseException only
ExceptionSubclasses ==
    { "ZeroDivisionError", "ImportError", "TimeoutError", "MemoryError" }

\* faults of the steps after exec (lines 170-191)
PostFaults == { "none", "MemoryError" }

\* Python values of the executed code's namespace: <<type name, rendering>>
PyInt(v)      == <<"int", v>>
PyFunction(v) == <<"function", v>>
PyModule(v)   == <<"module", v>>
\* an instance of a class written in Python: r = random.Random()
PyInstance(v) == <<"Random", v>>
\* c = []; c.append(c)
CircularList  == <<"list", "[[...]]">>

\* callable(value)
callable(value) == value[1] = "function"

\* hasattr(value, '__module__'): functions and instances of Python classes
\* have it; int, str, list and module objects do not
hasattr__module__(value) == value[1] \in {"function", "Random"}

\* json.dumps(value, default=str) raises ValueError on a circular reference;
\* whatever else it cannot encode goes through default=str
JsonDumpsRaises(value) == value = CircularList

\* str(value)
str(value) == <<"str", value[2]>>

\* name.startswith('_'), for the names of the model
startswith_(name) == name \in {"__builtins__", "__name__", "__doc__", "_t"}

EmptyDict == [n \in {} |-> <<>>]

\* SandboxEnvironment.get_safe_globals(): the filtered builtins, the
\* preloaded modules (math stands for the five), __name__ and __doc__
get_safe_globals ==
    [n \in {"__builtins__", "math", "__name__", "__doc__"} |->
        IF n = "__builtins__" THEN <<"dict", "allowed_builtins">>
        ELSE IF n = "math" THEN PyModule("math")
        ELSE IF n = "__name__" THEN <<"str", "__sandbox__">>
        ELSE PyNone]

\* a slip: the session bindings are left out of the globals
execution_globals_NoSession(session_vars) == get_safe_globals

\* lines 148-149: get_safe_globals() updated with session_vars
execution_globals(session_vars) == session_vars @@ get_safe_globals

skip_vars ==
    { "__builtins__", "__name__", "__doc__", "__package__", "__loader__",
      "__spec__", "__annotations__", "__file__" }

\* a slip: every kept value is stored as its string rendering
_extract_user_variables_AlwaysStr(globals) ==
    LET kept == { name \in DOMAIN globals :
                    /\ ~startswith_(name)
                    /\ name \notin skip_vars
                    /\ ~callable(globals[name])
                    /\ ~hasattr__module__(globals[name]) }
    IN  [name \in kept |-> str(globals[name])]

\* SandboxRuntime._extract_user_variables(execution_globals)
_extract_user_variables(globals) ==
    LET kept == { name \in DOMAIN globals :
                    /\ ~startswith_(name)
                    /\ name \notin skip_vars
                    /\ ~callable(globals[name])
                    /\ ~hasattr__module__(globals[name]) }
    IN  [name \in kept |->
            IF JsonDumpsRaises(globals[name]) THEN str(globals[name])
            ELSE globals[name]]

\* OutputHandler._serialize_value: int and str give type and value; an
\* object json.dumps cannot encode gives type and repr
_serialize_value(value) ==
    IF value[1] \in {"int", "str"}
    THEN [type |-> value[1], key |-> "value", text |-> value[2]]
    ELSE [type |-> value[1], key |-> "repr", text |-> value[2]]

\* OutputHandler.serialize_variables(variables)
serialize_variables(variables) ==
    [name \in DOMAIN variables |-> _serialize_value(variables[name])]

\* the submitted code: the bindings it makes and the text it prints, then
\* how it ends; cause tells an ImportError the import machinery raised for
\* a refused import (import os) from an exception the code raised itself
Programs ==
    { [assigns |-> EmptyDict, raises |-> c, writes |-> "", cause |-> "user"] :
        c \in CodeBehaviours }
    \cup { [assigns |-> ("y" :> PyInt("42")), raises |-> c, writes |-> "",
            cause |-> "user"] :
             c \in {"ok", "ZeroDivisionError"} }
    \cup { [assigns |-> ("f" :> PyFunction("f")) @@ ("r" :> PyInstance("r"))
                        @@ ("_t" :> PyInt("42")),
            raises |-> "ok", writes |-> "", cause |-> "user"],
           [assigns |-> ("c" :> CircularList), raises |-> "ok", writes |-> "",
            cause |-> "user"],
           [assigns |-> EmptyDict, raises |-> "ok", writes |-> "hello",
            cause |-> "user"],
           [assigns |-> EmptyDict, raises |-> "ImportError", writes |-> "",
            cause |-> "policy"] }

\* the session_id argument
SessionIds == {"A", "B"}

\* the variables argument: None or {} (falsy), {'y': 7}, or a dictionary
\* that binds '__builtins__' to a table of the caller's
InputVariables ==
    { EmptyDict, ("y" :> PyInt("7")),
      ("__builtins__" :> <<"dict", "caller_builtins">>) }

Console(name) == [kind |-> name, call |-> 0]
StringIO(name, n) == [kind |-> name, call |-> n]

NoResult ==
    [success |-> FALSE, error |-> "no result", variables |-> EmptyDict,
     stdout |-> "", keys |-> {}, complete |-> FALSE]

\* the keys of the dictionary of lines 182-191
FullResultKeys ==
    { "success", "stdout", "stderr", "variables", "plots", "error",
      "execution_time", "memory_usage" }

\* the keys of the dictionaries of lines 194-233
ErrorResultKeys ==
    { "success", "stdout", "stderr", "variables", "plots", "error" }

\* the dictionary of lines 182-191
FullResult(success, error, variables, stdout) ==
    [success |-> success, error |-> error, variables |-> variables,
     stdout |-> stdout, keys |-> FullResultKeys, complete |-> TRUE]

\* the dictionaries of lines 194-233: 'stdout': '', 'variables': {}, no
\* execution_time, no memory_usage
ErrorResult(error) ==
    [success |-> FALSE, error |-> error, variables |-> EmptyDict,
     stdout |-> "", keys |-> ErrorResultKeys, complete |-> FALSE]

CtxSetupPcs == { "prepare", "ctx_begin", "ctx_alarm", "ctx_save", "ctx_stdout", "ctx_stderr" }
FinallyPcs  == { "fin_stdout", "fin_stderr", "fin_alarm", "fin_idle" }
InCallPcs   == CtxSetupPcs \cup FinallyPcs \cup { "exec", "post", "build", "handlers" }

\* the seconds the runtime is configured with
max_cpu_time == 30

\* the timeout argument of execution_context: <<>> is None, <<t>> is t
TimeoutArgs ==
    { <<>>, <<0>>, <<1>>, <<max_cpu_time>>, <<max_cpu_time + 1>> }

\* exception e leaves execution_context: to the except clauses of
\* execute_code, or to the caller who used the context manager directly
Escape(r, e) ==
    IF r.direct
    THEN [r EXCEPT !.pc = "done", !.exc = e, !.outcome = "raised"]
    ELSE [r EXCEPT !.pc = "handlers", !.exc = e]

\* exception e raised at the position r.pc: where control goes
Raise(r, e) ==
    IF r.pc \in CtxSetupPcs
    THEN \* before the try of line 124: no finally runs; the try of line 142 has it
         Escape(r, e)
    ELSE IF r.pc = "exec"
    THEN IF e \in ExceptionSubclasses /\ ~r.direct
         THEN \* except Exception, line 161
              [r EXCEPT !.pc = "post", !.success = FALSE, !.error = e]
         ELSE [r EXCEPT !.pc = "fin_stdout", !.exc = e]
    ELSE IF r.pc \in {"post", "build"}
    THEN [r EXCEPT !.pc = "fin_stdout", !.exc = e, !.result = NoResult]
    ELSE IF r.pc \in FinallyPcs
    THEN \* the rest of the finally block is skipped
         [Escape(r, e) EXCEPT !.result = NoResult]
    ELSE \* inside an except clause of line 193-233: nothing catches it
         [r EXCEPT !.pc = "done", !.exc = e, !.outcome = "raised", !.result = NoResult]

\* the most recent call whose exec(code) ran: its number, its session id, the
\* bindings its code made, and whether it reached the merge of line 177
NoExec ==
    [call |-> 0, session_id |-> "A", assigns |-> EmptyDict, cause |-> "user",
     merged |-> FALSE]

\* session_id, variables: the arguments of the call; globals,
\* user_variables: its locals; store_before: session_vars when the call was
\* made; timed_out: the alarm went off during the call; stdout_buffer: the
\* text in the StringIO that stands in for sys.stdout; direct: the context
\* manager is used by a caller of its own, not by execute_code; timeout: its
\* argument; armed_for: the seconds of the last signal.alarm call
RunConstructed ==
    [pc |-> "idle", calls |-> 0,
     sys_stdout |-> Console("stdout"), sys_stderr |-> Console("stderr"),
     pre_stdout |-> Console("stdout"), pre_stderr |-> Console("stderr"),
     old_stdout |-> Console("stdout"), old_stderr |-> Console("stderr"),
     alarm |-> FALSE, is_executing |-> FALSE,
     direct |-> FALSE, timeout |-> <<>>, armed_for |-> 0,
     session_vars |-> EmptyDict,
     session_id |-> "A", variables |-> EmptyDict,
     globals |-> EmptyDict, user_variables |-> EmptyDict,
     stdout_buffer |-> "",
     store_before |-> EmptyDict, last |-> NoExec, timed_out |-> FALSE,
     code |-> "ok",
     success |-> FALSE, error |-> "None",
     exc |-> "none", result |-> NoResult, outcome |-> "none"]

Others == <<envVars, ret, loaderVars, hookVars, proc>>

\* execute_code(code, session_id, variables) is called: line 140
ExecuteCodeCall ==
    /\ run.pc = "idle"
    /\ run.calls < MaxRuns
    /\ \E session_id \in SessionIds, variables \in InputVariables :
          run' = [run EXCEPT !.pc = "prepare", !.calls = @ + 1,
                             !.direct = FALSE, !.timeout = <<>>,
                             !.session_id = session_id,
                             !.variables = variables,
                             !.store_before = run.session_vars,
                             !.timed_out = FALSE,
                             !.code = "ok",
                             !.pre_stdout = run.sys_stdout,
                             !.pre_stderr = run.sys_stderr,
                             !.success = FALSE, !.error = "None",
                             !.exc = "none", !.result = NoResult,
                             !.outcome = "running"]
    /\ UNCHANGED Others

\* lines 144-149: the inputs go into session_vars, and the globals are the
\* safe globals updated with session_vars
Prepare ==
    /\ run.pc = "prepare"
    /\ LET session_vars == IF run.variables # EmptyDict
                           THEN run.variables @@ run.session_vars
                           ELSE run.session_vars
       IN  run' = [run EXCEPT !.pc = "ctx_begin",
                              !.session_vars = session_vars,
                              !.globals = execution_globals(session_vars)]
    /\ UNCHANGED Others

\* with self.execution_context(timeout): used by a caller directly
ExecutionContextCall ==
    /\ run.pc = "idle"
    /\ run.calls < MaxRuns
    /\ \E timeout \in TimeoutArgs :
          run' = [run EXCEPT !.pc = "ctx_begin", !.calls = @ + 1,
                             !.direct = TRUE, !.timeout = timeout,
                             !.timed_out = FALSE,
                             !.pre_stdout = run.sys_stdout,
                             !.pre_stderr = run.sys_stderr,
                             !.exc = "none", !.result = NoResult,
                             !.outcome = "running"]
    /\ UNCHANGED Others

\* lines 105-109: a timeout of None becomes max_cpu_time
CtxBegin ==
    /\ run.pc = "ctx_begin"
    /\ run' = [run EXCEPT !.pc = "ctx_alarm", !.is_executing = TRUE,
                          !.timeout = IF run.timeout = <<>>
                                      THEN <<max_cpu_time>> ELSE run.timeout]
    /\ UNCHANGED Others

\* line 112: signal.alarm(timeout); signal.alarm(0) arms nothing
CtxAlarm ==
    /\ run.pc = "ctx_alarm"
    /\ run' = [run EXCEPT !.pc = "ctx_save",
                          !.alarm = run.timeout[1] > 0,
                          !.armed_for = run.timeout[1]]
    /\ UNCHANGED Others

\* lines 115-119
CtxSave ==
    /\ run.pc = "ctx_save"
    /\ run' = [run EXCEPT !.pc = "ctx_stdout",
                          !.old_stdout = run.sys_stdout,
                          !.old_stderr = run.sys_stderr,
                          !.stdout_buffer = ""]
    /\ UNCHANGED Others

\* line 121
CtxSetStdout ==
    /\ run.pc = "ctx_stdout"
    /\ run' = [run EXCEPT !.pc = "ctx_stderr",
                          !.sys_stdout = StringIO("stdout_buffer", run.calls)]
    /\ UNCHANGED Others

\* line 122, then the try of line 124 and the yield
CtxSetStderr ==
    /\ run.pc = "ctx_stderr"
    /\ run' = [run EXCEPT !.pc = "exec",
                          !.sys_stderr = StringIO("stderr_buffer", run.calls)]
    /\ UNCHANGED Others

\* lines 156-167: exec(code, execution_globals) makes the code's bindings in
\* the globals, then completes or raises
ExecCode ==
    /\ run.pc = "exec"
    /\ ~run.direct
    /\ \E program \in Programs :
          LET r == [run EXCEPT !.code = program.raises,
                               !.globals = program.assigns @@ run.globals,
                               !.stdout_buffer = program.writes,
                               !.last = [call |-> run.calls,
                                         session_id |-> run.session_id,
                                         assigns |-> program.assigns,
                                         cause |-> program.cause,
                                         merged |-> FALSE]]
          IN  run' = IF program.raises = "ok"
                     THEN [r EXCEPT !.pc = "post", !.success = TRUE, !.error = "None"]
                     ELSE Raise(r, program.raises)
    /\ UNCHANGED Others

\* the body of a with statement of a direct caller (the yield of line 125):
\* it completes or raises
WithBody ==
    /\ run.pc = "exec"
    /\ run.direct
    /\ \E e \in {"ok", "ZeroDivisionError"} :
          run' = IF e = "ok" THEN [run EXCEPT !.pc = "fin_stdout"]
                 ELSE Raise(run, e)
    /\ UNCHANGED Others

\* lines 170-177: the bindings are extracted from the globals and merged
\* into session_vars, whether exec completed or raised
PostProcess ==
    /\ run.pc = "post"
    /\ \E fault \in PostFaults :
          run' = IF fault = "none"
                 THEN LET user_variables == _extract_user_variables(run.globals)
                      IN  [run EXCEPT !.pc = "build",
                                      !.user_variables = user_variables,
                                      !.session_vars = user_variables @@ run.session_vars,
                                      !.last.merged = TRUE]
                 ELSE Raise(run, fault)
    /\ UNCHANGED Others

\* lines 180-191: the result is built and returned through the finally
BuildResult ==
    /\ run.pc = "build"
    /\ \E fault \in PostFaults :
          run' = IF fault = "none"
                 THEN [run EXCEPT !.pc = "fin_stdout",
                                  !.result = FullResult(run.success, run.error,
                                                 serialize_variables(run.user_variables),
                                                 run.stdout_buffer)]
                 ELSE Raise(run, fault)
    /\ UNCHANGED Others

\* line 132
FinRestoreStdout ==
    /\ run.pc = "fin_stdout"
    /\ run' = [run EXCEPT !.pc = "fin_stderr", !.sys_stdout = run.old_stdout]
    /\ UNCHANGED Others

\* line 133
FinRestoreStderr ==
    /\ run.pc = "fin_stderr"
    /\ run' = [run EXCEPT !.pc = "fin_alarm", !.sys_stderr = run.old_stderr]
    /\ UNCHANGED Others

\* line 136
FinCancelAlarm ==
    /\ run.pc = "fin_alarm"
    /\ run' = [run EXCEPT !.pc = "fin_idle", !.alarm = FALSE, !.armed_for = 0]
    /\ UNCHANGED Others

\* line 138, then the with statement is left: the pending return completes or
\* the pending exception reaches the except clauses of execute_code
FinIdle ==
    /\ run.pc = "fin_idle"
    /\ run' = IF run.exc = "none"
              THEN [run EXCEPT !.pc = "done", !.is_executing = FALSE,
                               !.outcome = "returned"]
              ELSE Escape([run EXCEPT !.is_executing = FALSE], run.exc)
    /\ UNCHANGED Others

\* lines 193-233: except TimeoutError / MemoryError / Exception
Handlers ==
    /\ run.pc = "handlers"
    /\ run' = IF run.exc \in ExceptionSubclasses
              THEN [run EXCEPT !.pc = "done", !.outcome = "returned",
                               !.result = ErrorResult(run.exc), !.exc = "none"]
              ELSE [run EXCEPT !.pc = "done", !.outcome = "raised"]
    /\ UNCHANGED Others

\* SIGALRM: _timeout_handler, lines 94-96; the alarm is one-shot
TimeoutInterrupt ==
    /\ run.pc \in InCallPcs
    /\ run.alarm
    /\ run' = Raise([run EXCEPT !.alarm = FALSE, !.timed_out = TRUE], "TimeoutError")
    /\ UNCHANGED Others

\* SIGTERM: _termination_handler, lines 98-100
TerminationInterrupt ==
    /\ run.pc \in InCallPcs
    /\ run' = Raise(run, "KeyboardInterrupt")
    /\ UNCHANGED Others

\* the caller has the result (or the exception) and may call again; the
\* locals of the call are gone
ReturnToCaller ==
    /\ run.pc = "done"
    /\ run' = [run EXCEPT !.pc = "idle", !.globals = EmptyDict,
                          !.user_variables = EmptyDict,
                          !.stdout_buffer = ""]
    /\ UNCHANGED Others

(***************************************************************************)
(* runtime.py: the session files /tmp/session_<id>_vars.pkl                *)
(***************************************************************************)
\* a file: <<"missing">>, <<"corrupt">> (not a pickle), or <<"pickle", d>>
\* with d the dictionary pickled
Missing == <<"missing">>
Corrupt == <<"corrupt">>
Pickle(d) == <<"pickle", d>>

\* pickle.dump raises for a module object
Picklable(d) == \A name \in DOMAIN d : d[name][1] # "module"

NoStoreCall == [op |-> "none", session_id |-> "A", found |-> Missing,
                before |-> EmptyDict, returned |-> FALSE, raised |-> FALSE]

\* the threads of the process that call execute_code on the one runtime
Threads == {1, 2}

\* a thread's frame: where it is in execute_code, the locals old_stdout and
\* old_stderr of execution_context, and the calls it has finished
ThreadIdle ==
    [pc |-> "idle", old_stdout |-> Console("stdout"),
     old_stderr |-> Console("stderr"), calls |-> 0]

NoChainCall == [op |-> "none", hook |-> "hook", was_registered |-> FALSE]

\* threads: the frame of each thread that calls execute_code; serialized:
\* the callers hold a lock of their own around execute_code
\* files: the session files; runtime_hooks: the import_hook of every
\* SandboxRuntime constructed; patched_hooks: the hooks patch_import_system
\* returned; chain_ret: the last call that touched sys.meta_path
\* rlimits: the hard resource limits of the process; install: the last
\* SandboxRuntime construction (the first runtime's went through);
\* preloaded_modules: SandboxEnvironment.preloaded_modules, name -> heap
\* object; safe_globals: the module entries of the last get_safe_globals()
\* result; mediated: the last filter_module_attributes result;
\* output: the runtime's OutputHandler (its plots);
\* open_ret: the last safe_open call and its outcome;
\* hook_state: the fields of the hooks other than the first runtime's;
\* frames: the find_spec activations in progress; entered: the hooks whose
\* find_spec the resolution in progress (or the last one) has entered, in
\* order; resolve_ret: the outcome of the last resolution
ProcConstructed ==
    [files |-> [id \in SessionIds |-> Missing], store_ret |-> NoStoreCall,
     runtime_hooks |-> {"hook"}, patched_hooks |-> {},
     chain_ret |-> NoChainCall,
     threads |-> [t \in Threads |-> ThreadIdle], serialized |-> FALSE,
     rlimits |-> [r \in {"RLIMIT_AS", "RLIMIT_CPU", "RLIMIT_FSIZE"} |-> "installed"],
     install |-> [pc |-> "constructed", hook |-> "hook",
                  attempted |-> {"RLIMIT_AS", "RLIMIT_CPU", "RLIMIT_FSIZE"},
                  raised |-> "none", warned |-> FALSE, handlers |-> TRUE,
                  restricted |-> TRUE],
     preloaded_modules |-> [module_name \in { <<"json">> } |-> "module"],
     safe_globals |-> [called |-> FALSE, modules |-> <<>>],
     mediated |-> [called |-> FALSE, name |-> <<>>, obj |-> "module"],
     output |-> [plots |-> <<>>, created |-> 0, data |-> <<>>, copy |-> <<>>,
                 copy_fresh |-> FALSE, op |-> "init"],
     open_ret |-> [op |-> "none", filename |-> [absolute |-> TRUE, parts |-> <<>>],
                   cwd |-> <<>>, mode |-> "r", abs_path |-> <<>>,
                   outcome |-> "none", buffering |-> "default"],
     hook_state |-> <<>>, frames |-> <<>>, entered |-> <<>>,
     resolve_ret |-> [hook |-> "hook", name |-> <<>>, outcome |-> "none",
                      spec |-> [name |-> <<>>, id |-> 0, loader |-> "None"]]]

\* SandboxRuntime.load_session_variables(session_id): the pickled
\* dictionary replaces session_vars; a missing file, or a file pickle.load
\* rejects (the except of line 276), leaves session_vars as it is
load_session_variables(session_id) ==
    LET file == proc.files[session_id] IN
    /\ run' = IF file[1] = "pickle"
              THEN [run EXCEPT !.session_vars = file[2]]
              ELSE run
    /\ proc' = [proc EXCEPT !.store_ret =
                   [op |-> "load", session_id |-> session_id, found |-> file,
                    before |-> run.session_vars,
                    returned |-> file[1] = "pickle", raised |-> FALSE]]

\* SandboxRuntime.save_session_variables(session_id): open(..., 'wb')
\* truncates the file, then pickle.dump writes session_vars or raises
save_session_variables(session_id) ==
    /\ proc' = [proc EXCEPT
                   !.files[session_id] =
                       IF Picklable(run.session_vars)
                       THEN Pickle(run.session_vars) ELSE Corrupt,
                   !.store_ret =
                       [op |-> "save", session_id |-> session_id,
                        found |-> proc.files[session_id],
                        before |-> run.session_vars,
                        returned |-> Picklable(run.session_vars),
                        raised |-> FALSE]]
    /\ UNCHANGED run

\* SandboxRuntime.clear_session_variables(session_id)
clear_session_variables(session_id) ==
    /\ run' = [run EXCEPT !.session_vars = EmptyDict]
    /\ proc' = [proc EXCEPT
                   !.files[session_id] = Missing,
                   !.store_ret =
                       [op |-> "clear", session_id |-> session_id,
                        found |-> proc.files[session_id],
                        before |-> run.session_vars,
                        returned |-> FALSE, raised |-> FALSE]]

LoadSessionVariablesCall ==
    /\ run.pc = "idle"
    /\ \E session_id \in SessionIds : load_session_variables(session_id)
    /\ UNCHANGED <<envVars, ret, loaderVars, hookVars>>

SaveSessionVariablesCall ==
    /\ run.pc = "idle"
    /\ \E session_id \in SessionIds : save_session_variables(session_id)
    /\ UNCHANGED <<envVars, ret, loaderVars, hookVars>>

ClearSessionVariablesCall ==
    /\ run.pc = "idle"
    /\ \E session_id \in SessionIds : clear_session_variables(session_id)
    /\ UNCHANGED <<envVars, ret, loaderVars, hookVars>>

(***************************************************************************)
(* sys.meta_path: SandboxRuntime.__init__ and cleanup (runtime.py),        *)
(* patch_import_system and unpatch_import_system (import_hook.py)          *)
(***************************************************************************)
\* the ImportHook instances created so far; "hook" is the first runtime's
AllHooks == proc.runtime_hooks \cup proc.patched_hooks

\* ImportHook(): a new object, equal to no other (no __eq__ is defined)
NewHook == "hook_" \o ToString(Cardinality(AllHooks))

\* hook in sys.meta_path
InChain(chain, hook) == \E i \in 1..Len(chain) : chain[i] = hook

\* list.remove(hook): the first occurrence goes
ListRemove(chain, hook) ==
    LET i == CHOOSE k \in 1..Len(chain) :
                 chain[k] = hook /\ \A j \in 1..(k - 1) : chain[j] # hook
    IN  SubSeq(chain, 1, i - 1) \o SubSeq(chain, i + 1, Len(chain))

\* SandboxRuntime(): lines 27-49, self.import_hook = ImportHook() and
\* sys.meta_path.insert(0, self.import_hook)
ConstructRuntimeCall ==
    /\ Cardinality(AllHooks) <= MaxHooks
    /\ meta_path' = <<NewHook>> \o meta_path
    /\ proc' = [proc EXCEPT
                   !.runtime_hooks = @ \cup {NewHook},
                   !.chain_ret = [op |-> "construct", hook |-> NewHook,
                                  was_registered |-> FALSE]]
    /\ UNCHANGED <<envVars, ret, loaderVars, import_cache, import_count,
                   attempted_imports, blocked_imports, hook_ret, run>>

\* patch_import_system(): a new hook, inserted in front when it is not in
\* the chain
patch_import_system ==
    /\ Cardinality(AllHooks) <= MaxHooks
    /\ meta_path' = IF ~InChain(meta_path, NewHook)
                    THEN <<NewHook>> \o meta_path ELSE meta_path
    /\ proc' = [proc EXCEPT
                   !.patched_hooks = @ \cup {NewHook},
                   !.chain_ret = [op |-> "patch", hook |-> NewHook,
                                  was_registered |-> InChain(meta_path, NewHook)]]
    /\ UNCHANGED <<envVars, ret, loaderVars, import_cache, import_count,
                   attempted_imports, blocked_imports, hook_ret, run>>

\* unpatch_import_system(hook)
unpatch_import_system(hook) ==
    /\ meta_path' = IF InChain(meta_path, hook)
                    THEN ListRemove(meta_path, hook) ELSE meta_path
    /\ proc' = [proc EXCEPT
                   !.chain_ret = [op |-> "unpatch", hook |-> hook,
                                  was_registered |-> InChain(meta_path, hook)]]
    /\ UNCHANGED <<envVars, ret, loaderVars, import_cache, import_count,
                   attempted_imports, blocked_imports, hook_ret, run>>

UnpatchImportSystemCall == \E hook \in AllHooks : unpatch_import_system(hook)

\* a slip: cleanup leaves the hook on the chain
cleanup_KeepHook(hook) ==
    /\ meta_path' = meta_path
    /\ proc' = [proc EXCEPT
                   !.chain_ret = [op |-> "cleanup", hook |-> hook,
                                  was_registered |-> InChain(meta_path, hook)]]
    /\ run' = IF hook = "hook"
              THEN [run EXCEPT !.alarm = FALSE, !.armed_for = 0,
                               !.session_vars = EmptyDict]
              ELSE run
    /\ UNCHANGED <<envVars, ret, loaderVars, import_cache, import_count,
                   attempted_imports, blocked_imports, hook_ret>>

\* SandboxRuntime.cleanup() of the runtime whose import_hook is hook: the
\* alarm is cancelled, the hook is removed from the chain when it is there,
\* session_vars is cleared (run is the runtime of "hook")
cleanup(hook) ==
    /\ meta_path' = IF InChain(meta_path, hook)
                    THEN ListRemove(meta_path, hook) ELSE meta_path
    /\ proc' = [proc EXCEPT
                   !.chain_ret = [op |-> "cleanup", hook |-> hook,
                                  was_registered |-> InChain(meta_path, hook)]]
    /\ run' = IF hook = "hook"
              THEN [run EXCEPT !.alarm = FALSE, !.armed_for = 0,
                               !.session_vars = EmptyDict]
              ELSE run
    /\ UNCHANGED <<envVars, ret, loaderVars, import_cache, import_count,
                   attempted_imports, blocked_imports, hook_ret>>

CleanupCall ==
    /\ run.pc = "idle"
    /\ \E hook \in proc.runtime_hooks : cleanup(hook)

(***************************************************************************)
(* sandbox_env.py: the preloaded modules and get_safe_globals              *)
(***************************************************************************)
\* the preloaded modules among ModuleNames (math, random, datetime, json
\* and re are preloaded)
safe_to_preload == { <<"json">> }

\* _preload_safe_modules (lines 105-114): preloaded_modules[name] is the
\* object importlib.import_module returned, here the heap object "module"
preloaded_modules == [module_name \in safe_to_preload |-> "module"]

\* lines 125-127 of get_safe_globals: safe_globals[name] = module, for every
\* preloaded module
GetSafeGlobalsCall ==
    /\ ~proc.safe_globals.called
    /\ proc' = [proc EXCEPT !.safe_globals =
                   [called |-> TRUE, modules |-> proc.preloaded_modules]]
    /\ UNCHANGED <<envVars, ret, loaderVars, hookVars, run>>

\* filter_module_attributes(module, name) on a preloaded module: the view
\* SandboxModuleLoader.exec_module gives a module imported through the hook
FilterPreloadedCall ==
    /\ ~proc.mediated.called
    /\ \E module_name \in DOMAIN proc.preloaded_modules :
          LET f == filter_module_attributes(heap, proc.preloaded_modules[module_name],
                                            module_name)
          IN  /\ heap' = f.heap
              /\ proc' = [proc EXCEPT !.mediated =
                             [called |-> TRUE, name |-> module_name, obj |-> f.obj]]
    /\ UNCHANGED <<envVars, ret, loader, hookVars, run>>

(***************************************************************************)
(* output_handler.py: OutputHandler.plots. A plot dictionary is named by   *)
(* the order of its creation (its uuid), so that the list holds            *)
(* references: proc.output.data maps a plot to its 'data' entry.           *)
(***************************************************************************)
\* OutputHandler.max_plots
max_plots == MaxPlots

\* the most figures open at one capture
MaxFigures == max_plots + 1

\* the model stops capturing after this many plots were created
MaxCreated == 2 * max_plots + 1

\* what happens to one open figure in the loop of lines 79-91: a plot
\* dictionary, None from _figure_to_data (too large, or savefig failed), or
\* an exception caught at line 90
FigureOutcomes == {"data", "None", "raised"}

\* the captures of one call: an outcome for each open figure
FigureRuns ==
    UNION { [1..k -> FigureOutcomes] : k \in 0..MaxFigures }

\* a slip: the newest plot is dropped
EvictOldest_DropNewest(plots) == SubSeq(plots, 1, Len(plots) - 1)

\* line 88: self.plots.pop(0)
EvictOldest(plots) == Tail(plots)

\* the loop of lines 79-91 from figure i on: plots is self.plots, created
\* the number of plot dictionaries created so far
RECURSIVE CaptureLoop(_, _, _, _)
CaptureLoop(plots, created, figures, i) ==
    IF i > Len(figures) THEN [plots |-> plots, created |-> created]
    ELSE IF figures[i] = "data"
    THEN LET appended == Append(plots, created + 1)
         IN  CaptureLoop(IF Len(appended) > max_plots
                         THEN EvictOldest(appended) ELSE appended,
                         created + 1, figures, i + 1)
    ELSE IF figures[i] = "None"
    THEN CaptureLoop(IF Len(plots) > max_plots THEN EvictOldest(plots) ELSE plots,
                     created, figures, i + 1)
    ELSE CaptureLoop(plots, created, figures, i + 1)

\* OutputHandler.__init__: no plot; copy is the list the last get_plots
\* call returned, as its caller left it
OutputHandlerConstructed ==
    [plots |-> <<>>, created |-> 0, data |-> <<>>, copy |-> <<>>,
     copy_fresh |-> FALSE, op |-> "init"]

\* OutputHandler._capture_current_plots(), called by the patched plt.show
\* and plt.savefig
_capture_current_plots ==
    /\ \E figures \in FigureRuns :
          LET r == CaptureLoop(proc.output.plots, proc.output.created, figures, 1)
          IN  /\ r.created <= MaxCreated
              /\ proc' = [proc EXCEPT
                             !.output.plots = r.plots,
                             !.output.created = r.created,
                             !.output.data = [p \in 1..r.created |->
                                                IF p \in DOMAIN proc.output.data
                                                THEN proc.output.data[p] ELSE "png"],
                             !.output.op = "capture"]
    /\ UNCHANGED <<envVars, ret, loaderVars, hookVars, run>>

\* OutputHandler.get_plots(): self.plots.copy(), a new list of the same
\* plot dictionaries
get_plots ==
    /\ proc' = [proc EXCEPT !.output.copy = proc.output.plots,
                            !.output.copy_fresh = TRUE,
                            !.output.op = "get_plots"]
    /\ UNCHANGED <<envVars, ret, loaderVars, hookVars, run>>

\* OutputHandler.clear_plots()
clear_plots ==
    /\ proc' = [proc EXCEPT !.output.plots = <<>>, !.output.op = "clear_plots"]
    /\ UNCHANGED <<envVars, ret, loaderVars, hookVars, run>>

\* the caller of get_plots changes the list it was given: pop(0), clear(),
\* or append of an object of its own
MutateCopy ==
    /\ proc.output.copy_fresh
    /\ \E copy \in { <<>>, Append(proc.output.copy, 0) }
                     \cup (IF proc.output.copy = <<>> THEN {}
                           ELSE {Tail(proc.output.copy)}) :
          /\ copy # proc.output.copy
          /\ proc' = [proc EXCEPT !.output.copy = copy,
                                  !.output.copy_fresh = FALSE,
                                  !.output.op = "mutate_copy"]
    /\ UNCHANGED <<envVars, ret, loaderVars, hookVars, run>>

\* the caller of get_plots changes an entry of a plot dictionary of the
\* list it was given: the dictionary is the handler's own
MutateCopiedPlot ==
    /\ proc.output.copy_fresh
    /\ \E i \in 1..Len(proc.output.copy) :
          /\ proc.output.copy[i] \in DOMAIN proc.output.data
          /\ proc' = [proc EXCEPT !.output.data[proc.output.copy[i]] = "changed",
                                  !.output.copy_fresh = FALSE,
                                  !.output.op = "mutate_plot"]
    /\ UNCHANGED <<envVars, ret, loaderVars, hookVars, run>>

(***************************************************************************)
(* sandbox_env.py: create_safe_open. A path is the sequence of its         *)
(* components; the check of line 192 is made on the path as a string, so   *)
(* components are spelled out in characters.                               *)
(***************************************************************************)
\* the spelling of the path components the model uses
Chars ==
    [c \in {"tmp", "tmp_x", "workspace", "sandbox", "data", "database",
            "etc", "f", ".."} |->
        CASE c = "tmp"       -> <<"t", "m", "p">>
          [] c = "tmp_x"     -> <<"t", "m", "p", "_", "x">>
          [] c = "workspace" -> <<"w", "o", "r", "k", "s", "p", "a", "c", "e">>
          [] c = "sandbox"   -> <<"s", "a", "n", "d", "b", "o", "x">>
          [] c = "data"      -> <<"d", "a", "t", "a">>
          [] c = "database"  -> <<"d", "a", "t", "a", "b", "a", "s", "e">>
          [] c = "etc"       -> <<"e", "t", "c">>
          [] c = "f"         -> <<"f">>
          [] c = ".."        -> <<".", ".">>]

\* line 186: allowed_dirs = ['/tmp', '/workspace', '/sandbox/data']
allowed_dirs == { <<"tmp">>, <<"workspace">>, <<"sandbox", "data">> }

\* line 199: safe_modes
safe_modes == {"r", "rb", "w", "wb", "a", "ab"}

\* the mode arguments tried
OpenModes == safe_modes \cup {"r+", "w+", "x", "rt"}

\* the filename arguments tried: absolute or relative to the working
\* directory
OpenFilenames ==
    { [absolute |-> TRUE, parts |-> p] :
        p \in { <<"tmp", "f">>, <<"tmp">>, <<"tmp_x", "f">>, <<"workspace", "f">>,
                <<"sandbox", "data", "f">>, <<"sandbox", "database">>,
                <<"sandbox", "f">>, <<"etc", "f">>,
                <<"tmp", "..", "etc", "f">>, <<>> } }
    \cup
    { [absolute |-> FALSE, parts |-> p] :
        p \in { <<"f">>, <<"..", "etc", "f">>, <<"tmp", "f">> } }

\* the working directories of the process
WorkingDirs == { <<>>, <<"tmp">>, <<"etc">> }

\* os.path.normpath on the components: '..' removes the component before
\* it, and stays at the root
RECURSIVE normpath(_, _)
normpath(done, parts) ==
    IF parts = <<>> THEN done
    ELSE IF Head(parts) = ".."
    THEN normpath(IF done = <<>> THEN <<>> ELSE SubSeq(done, 1, Len(done) - 1),
                  Tail(parts))
    ELSE normpath(Append(done, Head(parts)), Tail(parts))

\* os.path.abspath(filename): normpath(join(os.getcwd(), filename))
abspath(filename, cwd) ==
    normpath(<<>>, IF filename.absolute THEN filename.parts
                   ELSE cwd \o filename.parts)

\* the path as a string: '/' and the spelling of each component
RECURSIVE PathString(_)
PathString(path) ==
    IF path = <<>> THEN <<>>
    ELSE <<"/">> \o Chars[Head(path)] \o PathString(Tail(path))

\* str.startswith
startswith(string, prefix) ==
    /\ Len(string) >= Len(prefix)
    /\ SubSeq(string, 1, Len(prefix)) = prefix

\* line 192: any(abs_path.startswith(allowed_dir) ...)
PathAllowed(abs_path) ==
    \E allowed_dir \in allowed_dirs :
        startswith(IF abs_path = <<>> THEN <<"/">> ELSE PathString(abs_path),
                   PathString(allowed_dir))

NoOpen ==
    [op |-> "none", filename |-> [absolute |-> TRUE, parts |-> <<>>],
     cwd |-> <<>>, mode |-> "r", abs_path |-> <<>>, outcome |-> "none",
     buffering |-> "default"]

\* safe_open(filename, mode) of lines 184-206, with the working directory
\* cwd; exists: the file is there
safe_open(filename, mode, cwd, exists) ==
    LET abs_path == abspath(filename, cwd)
        outcome ==
            IF ~PathAllowed(abs_path) THEN "PermissionError"
            ELSE IF mode \notin safe_modes THEN "ValueError"
            ELSE IF ~exists /\ mode \in {"r", "rb"} THEN "FileNotFoundError"
            ELSE "opened"
    IN
    /\ proc' = [proc EXCEPT !.open_ret =
                   [op |-> "safe_open", filename |-> filename, cwd |-> cwd,
                    mode |-> mode, abs_path |-> abs_path, outcome |-> outcome,
                    buffering |-> IF outcome \in {"opened", "FileNotFoundError"}
                                     /\ mode \in {"w", "wb", "a", "ab"}
                                  THEN "8192" ELSE "default"]]
    /\ UNCHANGED <<envVars, ret, loaderVars, hookVars, run>>

SafeOpenCall ==
    \E filename \in OpenFilenames, mode \in OpenModes, cwd \in WorkingDirs,
       exists \in BOOLEAN :
          safe_open(filename, mode, cwd, exists)

(***************************************************************************)
(* import_hook.py: ImportHook.find_spec with several ImportHook instances  *)
(* on sys.meta_path. The call is followed statement by statement:          *)
(* proc.frames is the stack of find_spec activations, the innermost last.  *)
(***************************************************************************)
\* the names resolved while several hooks are registered
DelegateNames == { <<"json">>, <<"os">> }

\* ImportHook.__init__: the fields of a new hook
ImportHookConstructed ==
    [import_cache |-> [n \in {} |-> NoSpec], import_count |-> 0,
     attempted_imports |-> <<>>, blocked_imports |-> <<>>]

\* the fields of the hook h: those of the first runtime's hook are the
\* variables of the module, those of the others are kept in proc.hook_state
HookState(h) ==
    IF h = "hook"
    THEN [import_cache |-> import_cache, import_count |-> import_count,
          attempted_imports |-> attempted_imports,
          blocked_imports |-> blocked_imports]
    ELSE IF h \in DOMAIN proc.hook_state THEN proc.hook_state[h]
    ELSE ImportHookConstructed

HookStates == [h \in AllHooks |-> HookState(h)]

\* the ImportHook instances on sys.meta_path
ChainHooks == { h \in AllHooks : InChain(meta_path, h) }

\* the find_spec calls made on all hooks so far
TotalImportCount ==
    LET RECURSIVE Sum(_)
        Sum(hs) == IF hs = {} THEN 0
                   ELSE LET h == CHOOSE x \in hs : TRUE
                        IN  HookState(h).import_count + Sum(hs \ {h})
    IN  Sum(AllHooks)

\* ModuleSpec objects referenced by a cache, a frame or the last caller
DelegateSpecIds ==
    UNION { { HookState(h).import_cache[n].id :
                n \in DOMAIN HookState(h).import_cache } : h \in AllHooks }
      \cup { proc.frames[i].spec.id : i \in 1..Len(proc.frames) }
      \cup { proc.resolve_ret.spec.id }

DelegateFreshSpecId ==
    CHOOSE i \in 1..(Cardinality(DelegateSpecIds) + 1) : i \notin DelegateSpecIds

\* a find_spec activation: the hook it runs on (self), fullname, the index
\* in sys.meta_path of the finder the loop of line 80 asks next, and spec
Frame(h, fullname) == [hook |-> h, name |-> fullname, next |-> 1, spec |-> NoSpec]

\* lines 62-76 of find_spec on hook h: count and log the call, then the
\* limit check, the policy check and the cache lookup
find_spec_Check(S, h, fullname) ==
    LET counted == [S[h] EXCEPT !.import_count = @ + 1,
                                !.attempted_imports = Append(@, fullname)]
    IN  IF LimitExceeded(counted.import_count)
        THEN [states |-> [S EXCEPT ![h] = counted],
              outcome |-> "ImportLimitExceeded", spec |-> NoSpec]
        ELSE IF ~is_module_allowed(fullname)
        THEN [states |-> [S EXCEPT ![h] =
                            [counted EXCEPT !.blocked_imports = Append(@, fullname)]],
              outcome |-> "ImportDenied", spec |-> NoSpec]
        ELSE IF fullname \in DOMAIN counted.import_cache
        THEN [states |-> [S EXCEPT ![h] = counted],
              outcome |-> "cached", spec |-> counted.import_cache[fullname]]
        ELSE [states |-> [S EXCEPT ![h] = counted],
              outcome |-> "delegating", spec |-> NoSpec]

\* a step of a resolution: the fields of every hook, the stack, the log of
\* the find_spec activations of this resolution and the outcome
Commit(S, frames, entered, resolve_ret) ==
    /\ import_cache' = S["hook"].import_cache
    /\ import_count' = S["hook"].import_count
    /\ attempted_imports' = S["hook"].attempted_imports
    /\ blocked_imports' = S["hook"].blocked_imports
    /\ proc' = [proc EXCEPT
                   !.hook_state = [h \in AllHooks \ {"hook"} |-> S[h]],
                   !.frames = frames,
                   !.entered = entered,
                   !.resolve_ret = resolve_ret]
    /\ UNCHANGED <<envVars, ret, loaderVars, meta_path, hook_ret, run>>

\* the import machinery (or a caller) calls hook.find_spec(fullname, None)
\* on a hook of the chain; an ImportError leaves find_spec at once
ResolveCall ==
    /\ proc.frames = <<>>
    /\ TotalImportCount < MaxAttempts
    /\ \E h \in ChainHooks, fullname \in DelegateNames :
          LET c == find_spec_Check(HookStates, h, fullname)
          IN  Commit(c.states,
                     IF c.outcome = "delegating" THEN <<Frame(h, fullname)>> ELSE <<>>,
                     <<h>>,
                     [hook |-> h, name |-> fullname,
                      outcome |-> IF c.outcome = "delegating" THEN "none" ELSE c.outcome,
                      spec |-> c.spec])

\* the innermost activation, and whether its loop of lines 80-87 goes on
TopFrame == proc.frames[Len(proc.frames)]

Looping ==
    /\ proc.frames # <<>>
    /\ TopFrame.spec = NoSpec
    /\ TopFrame.next <= Len(meta_path)

SetTop(frames, f) == [frames EXCEPT ![Len(frames)] = f]

\* lines 81-82: if finder is self: continue
SkipSelf ==
    /\ Looping
    /\ meta_path[TopFrame.next] = TopFrame.hook
    /\ Commit(HookStates,
              SetTop(proc.frames, [TopFrame EXCEPT !.next = @ + 1]),
              proc.entered, proc.resolve_ret)

\* lines 84-85 when the finder is another ImportHook: its find_spec runs
\* inside this one; an ImportError it raises is caught nowhere and ends
\* every activation of the stack
DelegateToHook ==
    /\ Looping
    /\ meta_path[TopFrame.next] \in AllHooks \ {TopFrame.hook}
    /\ LET finder == meta_path[TopFrame.next]
           c == find_spec_Check(HookStates, finder, TopFrame.name)
       IN  Commit(c.states,
                  CASE c.outcome = "delegating" ->
                         Append(proc.frames, Frame(finder, TopFrame.name))
                    [] c.outcome = "cached" ->
                         SetTop(proc.frames, [TopFrame EXCEPT !.spec = c.spec])
                    [] OTHER -> <<>>,
                  Append(proc.entered, finder),
                  IF c.outcome \in {"ImportLimitExceeded", "ImportDenied"}
                  THEN [proc.resolve_ret EXCEPT !.outcome = c.outcome]
                  ELSE proc.resolve_ret)

\* lines 84-87 when the finder is one of the interpreter's: it returns a
\* new spec, with or without a loader, or None
DelegateToFinder ==
    /\ Looping
    /\ meta_path[TopFrame.next] \notin AllHooks
    /\ \E found \in BOOLEAN, with_loader \in BOOLEAN :
          Commit(HookStates,
                 SetTop(proc.frames,
                        IF found
                        THEN [TopFrame EXCEPT !.spec =
                                [name |-> TopFrame.name, id |-> DelegateFreshSpecId,
                                 loader |-> IF with_loader THEN "SourceFileLoader"
                                            ELSE "None"]]
                        ELSE [TopFrame EXCEPT !.next = @ + 1]),
                 proc.entered, proc.resolve_ret)

\* lines 95-96: the loader of the spec is replaced by a SandboxModuleLoader
WrapLoader(spec) ==
    IF spec.loader # "None" THEN [spec EXCEPT !.loader = "SandboxModuleLoader"]
    ELSE spec

\* lines 89-99: the loop is over; None is returned when no finder knew the
\* name, else the spec is wrapped, cached and returned. The caller is the
\* activation below (line 85-87) or the caller of the resolution
FrameReturn ==
    /\ proc.frames # <<>>
    /\ ~Looping
    /\ LET f == TopFrame
           spec == WrapLoader(f.spec)
           S == IF f.spec = NoSpec THEN HookStates
                ELSE [HookStates EXCEPT ![f.hook].import_cache =
                         CacheStore(@, f.name, spec)]
           rest == SubSeq(proc.frames, 1, Len(proc.frames) - 1)
       IN  IF rest = <<>>
           THEN Commit(S, <<>>, proc.entered,
                       [hook |-> f.hook, name |-> f.name,
                        outcome |-> IF f.spec = NoSpec THEN "not_found" ELSE "resolved",
                        spec |-> IF f.spec = NoSpec THEN NoSpec ELSE spec])
           ELSE Commit(S,
                       SetTop(rest,
                              IF f.spec = NoSpec
                              THEN [rest[Len(rest)] EXCEPT !.next = @ + 1]
                              ELSE [rest[Len(rest)] EXCEPT !.spec = spec]),
                       proc.entered, proc.resolve_ret)

\* patch_import_system() or SafeImporter.__enter__ between two resolutions
PatchBetweenResolutions ==
    /\ proc.frames = <<>>
    /\ patch_import_system

(***************************************************************************)
(* runtime.py: SandboxRuntime.__init__ and _install_security_hooks,        *)
(* statement by statement. proc.rlimits are the resource limits of the     *)
(* process, proc.install the construction in progress.                     *)
(***************************************************************************)
\* the resources _install_security_hooks limits, in the order of the calls
Ceilings == <<"RLIMIT_AS", "RLIMIT_CPU", "RLIMIT_FSIZE">>

CeilingSet == { Ceilings[i] : i \in 1..Len(Ceilings) }

\* resource.setrlimit(r, (v, v)) on a resource whose hard limit is
\* "unlimited", "lower" than v (inherited from the parent process) or
\* "installed" (v, set by a runtime): an unprivileged process may not raise
\* a hard limit (ValueError); the platform may refuse the call (OSError)
SetrlimitOutcomes(current) ==
    IF current = "lower" THEN {"ValueError"}
    ELSE IF current = "installed" THEN {"ok"}
    ELSE {"ok", "OSError"}

\* no construction has started
NotConstructing ==
    [pc |-> "none", hook |-> "hook", attempted |-> {}, raised |-> "none",
     warned |-> FALSE, handlers |-> FALSE, restricted |-> FALSE]

\* lines 27-49: the fields are set, then _install_security_hooks inserts the
\* new hook in front of the chain
ConstructBegin ==
    /\ proc.install.pc \in {"none", "constructed"}
    /\ Cardinality(AllHooks) <= MaxHooks
    /\ meta_path' = <<NewHook>> \o meta_path
    /\ proc' = [proc EXCEPT
                   !.runtime_hooks = @ \cup {NewHook},
                   !.install = [NotConstructing EXCEPT !.pc = "set_1", !.hook = NewHook]]
    /\ UNCHANGED <<envVars, ret, loaderVars, import_cache, import_count,
                   attempted_imports, blocked_imports, hook_ret, run>>

\* lines 54, 57 and 60, inside the one try of line 52: the i-th setrlimit
\* call; when it raises, control leaves the try for the handler of line 62
Setrlimit(i) ==
    /\ \E outcome \in SetrlimitOutcomes(proc.rlimits[Ceilings[i]]) :
          proc' = [proc EXCEPT
                      !.rlimits[Ceilings[i]] = IF outcome = "ok" THEN "installed" ELSE @,
                      !.install.attempted = @ \cup {Ceilings[i]},
                      !.install.raised = IF outcome = "ok" THEN "none" ELSE outcome,
                      !.install.pc =
                          IF outcome # "ok" THEN "except"
                          ELSE IF i < Len(Ceilings) THEN "set_" \o ToString(i + 1)
                          ELSE "signals"]
    /\ UNCHANGED <<envVars, ret, loaderVars, hookVars, run>>

SetrlimitAS ==
    /\ proc.install.pc = "set_1"
    /\ Setrlimit(1)

SetrlimitCPU ==
    /\ proc.install.pc = "set_2"
    /\ Setrlimit(2)

SetrlimitFSIZE ==
    /\ proc.install.pc = "set_3"
    /\ Setrlimit(3)

\* lines 62-63: except (OSError, ValueError): print the warning
ExceptWarn ==
    /\ proc.install.pc = "except"
    /\ proc' = [proc EXCEPT !.install.warned = TRUE, !.install.pc = "signals"]
    /\ UNCHANGED <<envVars, ret, loaderVars, hookVars, run>>

\* lines 66-67: the SIGALRM and SIGTERM handlers
InstallSignalHandlers ==
    /\ proc.install.pc = "signals"
    /\ proc' = [proc EXCEPT !.install.handlers = TRUE, !.install.pc = "restrict"]
    /\ UNCHANGED <<envVars, ret, loaderVars, hookVars, run>>

\* line 70: _restrict_builtins(); the constructor returns
RestrictBuiltinsAndReturn ==
    /\ proc.install.pc = "restrict"
    /\ proc' = [proc EXCEPT !.install.restricted = TRUE, !.install.pc = "constructed"]
    /\ UNCHANGED <<envVars, ret, loaderVars, hookVars, run>>

(***************************************************************************)
(* runtime.py: execute_code called from two threads on one runtime.        *)
(* is_executing, the alarm, sys.stdout and sys.stderr are shared (the      *)
(* fields of run); old_stdout and old_stderr are locals of each thread.    *)
(***************************************************************************)
\* the thread is inside execution_context, from line 108 to line 138
InContext(t) == proc.threads[t].pc \notin {"idle", "ctx_begin"}

ThreadStep(t, from, to) ==
    /\ proc.threads[t].pc = from
    /\ proc' = [proc EXCEPT !.threads[t].pc = to]

\* execute_code is called, lines 140-151; nothing in it tests is_executing.
\* Callers that serialize their calls wait until no other call is running
ThreadCall(t) ==
    /\ proc.threads[t].calls < MaxRuns
    /\ proc.serialized => \A u \in Threads : proc.threads[u].pc = "idle"
    /\ ThreadStep(t, "idle", "ctx_begin")
    /\ UNCHANGED run

\* a slip: is_executing is not set
ThreadCtxBegin_NoFlag(t) ==
    /\ ThreadStep(t, "ctx_begin", "ctx_alarm")
    /\ UNCHANGED run

\* lines 105-109
ThreadCtxBegin(t) ==
    /\ ThreadStep(t, "ctx_begin", "ctx_alarm")
    /\ run' = [run EXCEPT !.is_executing = TRUE]

\* line 112
ThreadCtxAlarm(t) ==
    /\ ThreadStep(t, "ctx_alarm", "ctx_save")
    /\ run' = [run EXCEPT !.alarm = TRUE, !.armed_for = max_cpu_time]

\* lines 115-119
ThreadCtxSave(t) ==
    /\ proc.threads[t].pc = "ctx_save"
    /\ proc' = [proc EXCEPT !.threads[t].pc = "ctx_stdout",
                            !.threads[t].old_stdout = run.sys_stdout,
                            !.threads[t].old_stderr = run.sys_stderr]
    /\ UNCHANGED run

\* line 121
ThreadCtxSetStdout(t) ==
    /\ ThreadStep(t, "ctx_stdout", "ctx_stderr")
    /\ run' = [run EXCEPT !.sys_stdout = StringIO("stdout_buffer", t)]

\* line 122
ThreadCtxSetStderr(t) ==
    /\ ThreadStep(t, "ctx_stderr", "exec")
    /\ run' = [run EXCEPT !.sys_stderr = StringIO("stderr_buffer", t)]

\* lines 156-191: the code runs and the result is built
ThreadExec(t) ==
    /\ ThreadStep(t, "exec", "fin_stdout")
    /\ UNCHANGED run

\* line 132
ThreadFinRestoreStdout(t) ==
    /\ ThreadStep(t, "fin_stdout", "fin_stderr")
    /\ run' = [run EXCEPT !.sys_stdout = proc.threads[t].old_stdout]

\* line 133
ThreadFinRestoreStderr(t) ==
    /\ ThreadStep(t, "fin_stderr", "fin_alarm")
    /\ run' = [run EXCEPT !.sys_stderr = proc.threads[t].old_stderr]

\* line 136
ThreadFinCancelAlarm(t) ==
    /\ ThreadStep(t, "fin_alarm", "fin_idle")
    /\ run' = [run EXCEPT !.alarm = FALSE, !.armed_for = 0]

\* line 138, and the call returns
ThreadFinIdle(t) ==
    /\ proc.threads[t].pc = "fin_idle"
    /\ proc' = [proc EXCEPT !.threads[t].pc = "idle",
                            !.threads[t].calls = @ + 1]
    /\ run' = [run EXCEPT !.is_executing = FALSE]

(***************************************************************************)
(* Specifications                                                          *)
(***************************************************************************)
EnvConstructed ==
    /\ allowed_modules = DefaultAllowedModules
    /\ blocked_modules = DefaultBlockedModules

\* SpecPolicy: the policy lookups, for every configuration of the tables
InitPolicy ==
    /\ allowed_modules \in AllowTables
    /\ blocked_modules \in KeySets
    /\ Cardinality(DOMAIN allowed_modules) + Cardinality(blocked_modules) <= MaxEntries
    /\ ret = NoRet
    /\ heap = NoHeap
    /\ loader = NoLoader
    /\ HookConstructed
    /\ run = RunConstructed
    /\ proc = ProcConstructed

NextPolicy == IsModuleAllowedCall \/ GetAllowedAttributesCall

SpecPolicy == InitPolicy /\ [][NextPolicy]_vars

\* SpecLoader: one exec_module of a SandboxModuleLoader wrapped around a spec
\* that find_spec let through
LoaderTables ==
    { [allowed |-> DefaultAllowedModules, blocked |-> DefaultBlockedModules] }
    \cup { [allowed |-> (<<"json">> :> l), blocked |-> DefaultBlockedModules] :
             l \in AttrLists }

InitLoader ==
    /\ \E t \in LoaderTables :
          /\ allowed_modules = t.allowed
          /\ blocked_modules = t.blocked
    /\ ret = NoRet
    /\ \E module_name \in ModuleNames :
          /\ is_module_allowed(module_name)
          /\ \E has \in BOOLEAN, produced \in ProducedNamespaces(module_name) :
                loader = [pc |-> "created", name |-> module_name,
                          has_exec_module |-> has, produced |-> produced]
          /\ heap = [NoHeap EXCEPT !["module"] = ModuleType(module_name)]
    /\ HookConstructed
    /\ run = RunConstructed
    /\ proc = ProcConstructed

NextLoader == ExecModuleCall

SpecLoader == InitLoader /\ [][NextLoader]_vars

\* SpecHook: one ImportHook on the chain, with the policy as constructed
InitHook ==
    /\ EnvConstructed
    /\ ret = NoRet
    /\ heap = NoHeap
    /\ loader = NoLoader
    /\ HookConstructed
    /\ run = RunConstructed
    /\ proc = ProcConstructed

NextHook == FindSpecCall \/ clear_cache \/ reset_counters

SpecHook == InitHook /\ [][NextHook]_vars

\* SpecRun: execute_code calls on one SandboxRuntime, with interrupts
InitRun == InitHook

NextRun ==
    \/ ExecuteCodeCall
    \/ Prepare
    \/ CtxBegin
    \/ CtxAlarm
    \/ CtxSave
    \/ CtxSetStdout
    \/ CtxSetStderr
    \/ ExecCode
    \/ PostProcess
    \/ BuildResult
    \/ FinRestoreStdout
    \/ FinRestoreStderr
    \/ FinCancelAlarm
    \/ FinIdle
    \/ Handlers
    \/ TimeoutInterrupt
    \/ TerminationInterrupt
    \/ ReturnToCaller

SpecRun == InitRun /\ [][NextRun]_vars

\* SpecContext: execution_context used directly, with a timeout argument
InitContext == InitHook

NextContext ==
    \/ ExecutionContextCall
    \/ CtxBegin
    \/ CtxAlarm
    \/ CtxSave
    \/ CtxSetStdout
    \/ CtxSetStderr
    \/ WithBody
    \/ FinRestoreStdout
    \/ FinRestoreStderr
    \/ FinCancelAlarm
    \/ FinIdle
    \/ TimeoutInterrupt
    \/ TerminationInterrupt
    \/ ReturnToCaller

SpecContext == InitContext /\ [][NextContext]_vars

\* the stores execute_code leaves in session_vars
SessionStores ==
    { EmptyDict,
      ("y" :> PyInt("42")),
      ("y" :> PyInt("7")) @@ ("c" :> str(CircularList)),
      ("y" :> PyInt("42")) @@ ("math" :> PyModule("math")) }

\* the files a runtime finds: none, files that are no pickle, files saved
\* by an earlier process
SessionFiles ==
    { Missing, Corrupt, Pickle(EmptyDict), Pickle(("y" :> PyInt("7"))) }

\* SpecStore: the session store and its files, between execute_code calls
InitStore ==
    /\ EnvConstructed
    /\ ret = NoRet
    /\ heap = NoHeap
    /\ loader = NoLoader
    /\ HookConstructed
    /\ \E store \in SessionStores :
          run = [RunConstructed EXCEPT !.session_vars = store]
    /\ \E files \in [SessionIds -> SessionFiles] :
          proc = [ProcConstructed EXCEPT !.files = files]

NextStore ==
    \/ LoadSessionVariablesCall
    \/ SaveSessionVariablesCall
    \/ ClearSessionVariablesCall

SpecStore == InitStore /\ [][NextStore]_vars

\* SpecChain: the calls that register and unregister ImportHook instances
InitChain == InitHook

NextChain ==
    \/ ConstructRuntimeCall
    \/ patch_import_system
    \/ UnpatchImportSystemCall
    \/ CleanupCall

SpecChain == InitChain /\ [][NextChain]_vars

\* SpecDelegate: names resolved through the hooks of a chain that holds one
\* ImportHook or several
InitDelegate == InitHook

NextDelegate ==
    \/ ResolveCall
    \/ SkipSelf
    \/ DelegateToHook
    \/ DelegateToFinder
    \/ FrameReturn
    \/ PatchBetweenResolutions

SpecDelegate == InitDelegate /\ [][NextDelegate]_vars

\* SpecConstruct: SandboxRuntime() called in a process that has no runtime
\* yet, for every combination of inherited hard limits
InitConstruct ==
    /\ EnvConstructed
    /\ ret = NoRet
    /\ heap = NoHeap
    /\ loader = NoLoader
    /\ import_cache = [n \in {} |-> NoSpec]
    /\ import_count = 0
    /\ attempted_imports = <<>>
    /\ blocked_imports = <<>>
    /\ meta_path = <<"BuiltinImporter", "PathFinder">>
    /\ hook_ret = HookRet("init", <<>>, "returned", NoSpec, 0)
    /\ run = RunConstructed
    /\ \E limits \in [CeilingSet -> {"unlimited", "lower"}] :
          proc = [ProcConstructed EXCEPT
                     !.runtime_hooks = {},
                     !.rlimits = limits,
                     !.install = NotConstructing]

NextConstruct ==
    \/ ConstructBegin
    \/ SetrlimitAS
    \/ SetrlimitCPU
    \/ SetrlimitFSIZE
    \/ ExceptWarn
    \/ InstallSignalHandlers
    \/ RestrictBuiltinsAndReturn

SpecConstruct == InitConstruct /\ [][NextConstruct]_vars

\* SpecPreload: get_safe_globals on an environment whose preloaded module
\* was imported by importlib, for every namespace the import can leave and
\* every attribute list of the module
InitPreload ==
    /\ \E t \in LoaderTables :
          /\ allowed_modules = t.allowed
          /\ blocked_modules = t.blocked
    /\ ret = NoRet
    /\ loader = NoLoader
    /\ \E module_name \in safe_to_preload :
          \E produced \in ProducedNamespaces(module_name) :
             heap = [NoHeap EXCEPT ![preloaded_modules[module_name]] = produced]
    /\ HookConstructed
    /\ run = RunConstructed
    /\ proc = [ProcConstructed EXCEPT !.preloaded_modules = preloaded_modules]

NextPreload == GetSafeGlobalsCall \/ FilterPreloadedCall

SpecPreload == InitPreload /\ [][NextPreload]_vars

\* SpecPlots: captures, get_plots and clear_plots on one OutputHandler
InitPlots ==
    /\ InitHook
    /\ proc.output = OutputHandlerConstructed

NextPlots ==
    \/ _capture_current_plots
    \/ get_plots
    \/ clear_plots
    \/ MutateCopy
    \/ MutateCopiedPlot

SpecPlots == InitPlots /\ [][NextPlots]_vars

\* SpecOpen: calls of the function create_safe_open returns
InitOpen ==
    /\ InitHook
    /\ proc.open_ret = NoOpen

NextOpen == SafeOpenCall

SpecOpen == InitOpen /\ [][NextOpen]_vars

\* SpecOverlap: two threads call execute_code on one runtime, with or
\* without a lock of the callers around the calls
InitOverlap ==
    /\ EnvConstructed
    /\ ret = NoRet
    /\ heap = NoHeap
    /\ loader = NoLoader
    /\ HookConstructed
    /\ run = RunConstructed
    /\ \E serialized \in BOOLEAN :
          proc = [ProcConstructed EXCEPT !.serialized = serialized]

NextOverlap ==
    \E t \in Threads :
       /\ \/ ThreadCall(t)
          \/ ThreadCtxBegin(t)
          \/ ThreadCtxAlarm(t)
          \/ ThreadCtxSave(t)
          \/ ThreadCtxSetStdout(t)
          \/ ThreadCtxSetStderr(t)
          \/ ThreadExec(t)
          \/ ThreadFinRestoreStdout(t)
          \/ ThreadFinRestoreStderr(t)
          \/ ThreadFinCancelAlarm(t)
          \/ ThreadFinIdle(t)
       /\ UNCHANGED <<envVars, ret, loaderVars, hookVars>>

SpecOverlap == InitOverlap /\ [][NextOverlap]_vars

(***************************************************************************)
(* Properties                                                              *)
(***************************************************************************)
\* C1: every execute_code call returns a result dictionary and never raises,
\* whatever the code raises (BaseException subclasses included) and
\* whichever interrupt (timeout, termination) arrives.
C1_NeverRaises ==
    run.pc = "done" => run.outcome = "returned" /\ run.result # NoResult

\* C2: when execute_code is left, on any path and with the interrupts
\* delivered between any two steps, sys.stdout and sys.stderr are the stream
\* objects they were immediately before the call.
C2_StreamsRestored ==
    run.pc = "done" =>
        /\ run.sys_stdout = run.pre_stdout
        /\ run.sys_stderr = run.pre_stderr

\* C3: find_spec of a name the policy denies, below the import ceiling,
\* appends the name to blocked_imports and raises ImportError, without
\* calling find_spec of any other finder and without touching the cache.
C3_DeniedNeverDelegates ==
    [][ ( /\ hook_ret'.op = "find_spec"
          /\ import_count' = import_count + 1
          /\ import_count' <= max_imports
          /\ ~is_module_allowed(hook_ret'.name) )
        => ( /\ hook_ret'.outcome = "ImportDenied"
             /\ blocked_imports' = Append(blocked_imports, hook_ret'.name)
             /\ hook_ret'.delegated = 0
             /\ import_cache' = import_cache ) ]_vars

\* a denied name was refused while the cache held a resolved module
C3_Witness ==
    /\ hook_ret.op = "find_spec"
    /\ hook_ret.outcome = "ImportDenied"
    /\ ~is_module_allowed(hook_ret.name)
    /\ import_count <= max_imports
    /\ blocked_imports # <<>>
    /\ blocked_imports[Len(blocked_imports)] = hook_ret.name
    /\ DOMAIN import_cache # {}

\* C4: is_module_allowed is false for every name of the deny table, whatever
\* the allow table holds (the same name or one of its prefixes included).
C4_DenyTableWins ==
    (ret.op = "is_module_allowed" /\ ret.name \in blocked_modules)
        => ~ret.allowed

\* a name that is in both tables was rejected
C4_Witness ==
    /\ ret.op = "is_module_allowed"
    /\ ret.name \in blocked_modules
    /\ ret.name \in DOMAIN allowed_modules
    /\ ~ret.allowed

\* C5, as claimed: is_module_allowed is false for every name that is not a
\* key of the allow table.
C5_AbsentFromAllowTableDenied ==
    (ret.op = "is_module_allowed" /\ ret.name \notin DOMAIN allowed_modules)
        => ~ret.allowed

\* C5, amended: is_module_allowed is false for every name such that neither
\* the name nor any of its dotted prefixes is a key of the allow table.
C5_NoAllowedPrefixDenied ==
    ( /\ ret.op = "is_module_allowed"
      /\ \A p \in Prefixes(ret.name) : p \notin DOMAIN allowed_modules )
        => ~ret.allowed

\* a name with no entry at all, neither allowed nor denied by any prefix, was
\* rejected by a policy that allows something
C5_Witness ==
    /\ ret.op = "is_module_allowed"
    /\ \A p \in Prefixes(ret.name) :
          p \notin DOMAIN allowed_modules /\ p \notin blocked_modules
    /\ DOMAIN allowed_modules # {}
    /\ ~ret.allowed

\* C6: every name that has a dotted prefix (proper or equal) in the deny
\* table is rejected, also when a shorter prefix is in the allow table.
C6_DeniedPrefixDenies ==
    ( /\ ret.op = "is_module_allowed"
      /\ \E p \in Prefixes(ret.name) : p \in blocked_modules )
        => ~ret.allowed

\* the prefixes of a name that appear in either table
ListedPrefixes(module_name) ==
    { p \in Prefixes(module_name) :
        p \in blocked_modules \/ p \in DOMAIN allowed_modules }

MostSpecificPrefix(module_name) ==
    CHOOSE p \in ListedPrefixes(module_name) :
        \A q \in ListedPrefixes(module_name) : Len(q) <= Len(p)

\* C7: a name in neither table is decided by its longest prefix that is in
\* either table (false if denied, true if allowed), and is rejected when no
\* prefix is in either table.
C7_MostSpecificPrefixDecides ==
    ( /\ ret.op = "is_module_allowed"
      /\ ret.name \notin blocked_modules
      /\ ret.name \notin DOMAIN allowed_modules )
        => ret.allowed =
              ( /\ ListedPrefixes(ret.name) # {}
                /\ MostSpecificPrefix(ret.name) \notin blocked_modules )

\* the prefix the walk of is_module_allowed stops at
DecidingPrefix(module_name) ==
    CHOOSE p \in ListedPrefixes(module_name) :
        \A q \in ListedPrefixes(module_name) : Len(p) <= Len(q)

\* C8: a name allowed only through a prefix of the allow table gets that
\* prefix's attribute list: an explicit list restricts the submodule, which
\* is not treated as unrestricted.
C8_PrefixListInherited ==
    ( /\ ret.op = "get_allowed_attributes"
      /\ ret.name \notin DOMAIN allowed_modules
      /\ ret.allowed
      /\ "*" \notin allowed_modules[DecidingPrefix(ret.name)] )
        => ret.attrs = SomeAttrs(allowed_modules[DecidingPrefix(ret.name)])

\* the loader's module has an entry of this kind and exec_module has loaded it
LoadedWith(wildcard) ==
    /\ loader.pc = "done"
    /\ loader.has_exec_module
    /\ loader.name \in DOMAIN allowed_modules
    /\ ("*" \in allowed_modules[loader.name]) = wildcard

\* C9: for a module whose policy entry is the wildcard, the namespace after
\* exec_module is exactly the one the original loader produced.
C9_WildcardUnchanged ==
    LoadedWith(TRUE) => heap["module"] = loader.produced

\* C10, as claimed: for a module with an explicit attribute list, every
\* attribute of the original module still reachable is in the list, and every
\* listed attribute the original had is present with its original value.
C10_OnlyListedReachable ==
    LoadedWith(FALSE) =>
        /\ \A a \in AttrNames :
              (loader.produced[a] # Absent /\ heap["module"][a] # Absent)
                  => a \in allowed_modules[loader.name]
        /\ \A a \in allowed_modules[loader.name] \cap AttrNames :
              loader.produced[a] # Absent
                  => heap["module"][a] = loader.produced[a]

\* C10, amended: every attribute still reachable is in the list or is one of
\* the five attributes every new module object carries (__name__, __doc__,
\* __package__, __loader__, __spec__); every listed attribute the original
\* had is present with its original value.
C10_OnlyListedOrModuleTypeReachable ==
    LoadedWith(FALSE) =>
        /\ \A a \in AttrNames :
              heap["module"][a] # Absent
                  => a \in allowed_modules[loader.name] \/ a \in ModuleTypeAttrs
        /\ \A a \in allowed_modules[loader.name] \cap AttrNames :
              loader.produced[a] # Absent
                  => heap["module"][a] = loader.produced[a]

\* a module with a listed and an unlisted attribute was filtered: the listed
\* one is kept, the unlisted one is gone
C10_Witness ==
    /\ LoadedWith(FALSE)
    /\ allowed_modules[loader.name] = {"loads", "dumps"}
    /\ loader.produced["loads"] # Absent
    /\ loader.produced["JSONDecoder"] # Absent
    /\ heap["module"]["loads"] = loader.produced["loads"]
    /\ heap["module"]["JSONDecoder"] = Absent

\* a step of the model that is a find_spec call
FindSpecStep ==
    /\ hook_ret'.op = "find_spec"
    /\ import_count' = import_count + 1

\* C11: once max_imports find_spec calls have been made since construction
\* or the last reset_counters, every further call raises the import-limit
\* ImportError, for any name, before the policy is consulted, the cache is
\* read or another finder is called; only that call fails: the cache and the
\* denial log are as they were.
C11_BeyondCeilingRejected ==
    [][ (FindSpecStep /\ Len(attempted_imports) >= max_imports)
        => ( /\ hook_ret'.outcome = "ImportLimitExceeded"
             /\ hook_ret'.delegated = 0
             /\ hook_ret'.spec = NoSpec
             /\ blocked_imports' = blocked_imports
             /\ import_cache' = import_cache ) ]_vars

\* a cached name and a denied name were both refused beyond the ceiling
C11_Witness ==
    /\ hook_ret.op = "find_spec"
    /\ hook_ret.outcome = "ImportLimitExceeded"
    /\ hook_ret.name \in DOMAIN import_cache
    /\ Len(attempted_imports) = max_imports + 2
    /\ ~is_module_allowed(attempted_imports[max_imports + 1])

\* C12: after reset_counters import_count is 0 and the cache is unchanged,
\* and the next max_imports find_spec calls are not rejected by the limit
\* check, whatever the counter was before.
C12_ResetReopens ==
    [][ /\ (hook_ret'.op = "reset_counters" /\ hook_ret' # hook_ret)
           => (import_count' = 0 /\ import_cache' = import_cache)
        /\ (FindSpecStep /\ Len(attempted_imports) < max_imports)
           => hook_ret'.outcome # "ImportLimitExceeded" ]_vars

\* max_imports calls were accepted again after a reset: the cache still
\* holds a module resolved before the reset, and no call since resolved one
C12_Witness ==
    /\ hook_ret.op = "find_spec"
    /\ hook_ret.outcome = "ImportDenied"
    /\ Len(attempted_imports) = max_imports
    /\ \A i \in 1..Len(attempted_imports) : ~is_module_allowed(attempted_imports[i])
    /\ DOMAIN import_cache # {}

\* C13, as claimed: import_count <= max_imports in every reachable state.
C13_CountWithinCeiling ==
    import_count <= max_imports

\* C13, amended: import_count <= max_imports in every state reached by a
\* find_spec call that passed the limit check; a call that finds the counter
\* above max_imports after its increment raises, and the counter keeps
\* counting such calls.
C13_AcceptedWithinCeiling ==
    (hook_ret.op = "find_spec" /\ hook_ret.outcome # "ImportLimitExceeded")
        => import_count <= max_imports

\* the last accepted call, at the ceiling
C13_Witness ==
    /\ hook_ret.op = "find_spec"
    /\ hook_ret.outcome = "resolved"
    /\ import_count = max_imports

\* C14: a spec obtained from the chain is cached, stays cached until
\* clear_cache, and a later find_spec of the name, below the ceiling, returns
\* that cached spec without calling another finder.
C14_SecondCallHitsCache ==
    [][ /\ (FindSpecStep /\ hook_ret'.outcome = "resolved")
           => ( /\ hook_ret'.name \in DOMAIN import_cache'
                /\ import_cache'[hook_ret'.name] = hook_ret'.spec )
        /\ (hook_ret'.op # "clear_cache")
           => \A n \in DOMAIN import_cache :
                 n \in DOMAIN import_cache' /\ import_cache'[n] = import_cache[n]
        /\ ( /\ FindSpecStep
             /\ hook_ret'.name \in DOMAIN import_cache
             /\ is_module_allowed(hook_ret'.name)
             /\ import_count' <= max_imports )
           => ( /\ hook_ret'.outcome = "cached"
                /\ hook_ret'.spec = import_cache[hook_ret'.name]
                /\ hook_ret'.delegated = 0 ) ]_vars

\* a name was answered from the cache while another spec is cached too
C14_Witness ==
    /\ hook_ret.op = "find_spec"
    /\ hook_ret.outcome = "cached"
    /\ hook_ret.spec = import_cache[hook_ret.name]
    /\ hook_ret.spec.id # 0
    /\ Cardinality(DOMAIN import_cache) = 2

\* the find_spec call that follows a clear_cache, for a name it removed
NextAfterClear ==
    /\ hook_ret.op = "clear_cache"
    /\ FindSpecStep
    /\ hook_ret'.name \in hook_ret.cleared
    /\ is_module_allowed(hook_ret'.name)

ClearCacheEffect ==
    (hook_ret'.op = "clear_cache")
        => ( /\ DOMAIN import_cache' = {}
             /\ import_count' = import_count
             /\ attempted_imports' = attempted_imports
             /\ blocked_imports' = blocked_imports )

\* C15, as claimed: after clear_cache the cache is empty and the counter and
\* the logs are unchanged; the next find_spec of a previously cached allowed
\* name delegates to the chain again and caches what the chain returns.
C15_ClearForcesReresolution ==
    [][ /\ ClearCacheEffect
        /\ NextAfterClear
           => ( /\ hook_ret'.delegated > 0
                /\ hook_ret'.outcome # "not_found"
                      => hook_ret'.name \in DOMAIN import_cache' ) ]_vars

\* C15, amended: the same, for a next find_spec that is not beyond the import
\* ceiling (beyond it the call raises without delegating); the entry is
\* re-populated when the chain returns a spec.
C15_ClearForcesReresolutionBelowCeiling ==
    [][ /\ ClearCacheEffect
        /\ (NextAfterClear /\ import_count' <= max_imports)
           => ( /\ hook_ret'.delegated > 0
                /\ hook_ret'.outcome \in {"resolved", "not_found"}
                /\ hook_ret'.outcome = "resolved"
                      => ( /\ hook_ret'.name \in DOMAIN import_cache'
                           /\ import_cache'[hook_ret'.name] = hook_ret'.spec ) ) ]_vars

\* a name cached before the last clear_cache was resolved through the chain
\* again
C15_Witness ==
    /\ hook_ret.op = "find_spec"
    /\ hook_ret.outcome = "resolved"
    /\ hook_ret.delegated > 0
    /\ Len(attempted_imports) >= 2
    /\ attempted_imports[Len(attempted_imports) - 1] = hook_ret.name
    /\ DOMAIN import_cache = {hook_ret.name}

\* a binding the extraction keeps as it is: a public name bound to a value
\* that is not callable, has no __module__ and that json.dumps can encode
Representable(name, value) ==
    /\ ~startswith_(name)
    /\ ~callable(value)
    /\ ~hasattr__module__(value)
    /\ ~JsonDumpsRaises(value)

\* the globals of the call in progress have just been built (line 149)
GlobalsBuilt == run.pc = "ctx_begin"

\* the previous call ran its code and merged the bindings into the store
PreviousCallMerged ==
    /\ run.last.call = run.calls - 1
    /\ run.last.merged

\* the call has returned the dictionary of lines 182-191, and its code ran
ReturnedFullResult ==
    /\ run.pc = "done"
    /\ run.outcome = "returned"
    /\ run.result.complete
    /\ run.last.call = run.calls

\* C16: a name bound by a call under session id A is not in the globals of a
\* later call made under a different session id B (unless B's own inputs
\* bind it).
C16_SessionsIsolated ==
    (GlobalsBuilt /\ PreviousCallMerged /\ run.last.session_id # run.session_id)
        => \A name \in DOMAIN run.last.assigns :
              name \notin DOMAIN run.variables => name \notin DOMAIN run.globals

C18_FailedCallLeavesStore ==
    (ReturnedFullResult /\ run.code \in ExceptionSubclasses)
        => /\ ~run.result.success
           /\ run.result.error = run.code
           /\ run.session_vars = run.store_before

\* C19: when the executed code completes without a fault and binds a public
\* name to a representable value, execute_code returns success = true, the
\* result's variables describe the name with that value and its type, and
\* session_vars maps the name to that value.
C19_BindingReturnedAndStored ==
    (ReturnedFullResult /\ run.code = "ok")
        => /\ run.result.success
           /\ \A name \in DOMAIN run.last.assigns :
                 Representable(name, run.last.assigns[name])
                    => /\ name \in DOMAIN run.result.variables
                       /\ run.result.variables[name] =
                             [type |-> run.last.assigns[name][1], key |-> "value",
                              text |-> run.last.assigns[name][2]]
                       /\ name \in DOMAIN run.session_vars
                       /\ run.session_vars[name] = run.last.assigns[name]

\* y = 42 was run with the input y = 7, returned and stored
C19_Witness ==
    /\ ReturnedFullResult
    /\ run.code = "ok"
    /\ run.variables # EmptyDict
    /\ "y" \in DOMAIN run.last.assigns
    /\ run.result.variables["y"] = [type |-> "int", key |-> "value", text |-> "42"]
    /\ run.session_vars["y"] = PyInt("42")

\* the error kinds of the results the code's own exceptions produce: what
\* the except clause of line 161 records for an exception raised by exec
UserRaisedKinds ==
    { Raise([RunConstructed EXCEPT !.pc = "exec"], e).error :
        e \in { c \in CodeBehaviours :
                  Raise([RunConstructed EXCEPT !.pc = "exec"], c).pc = "post" } }

\* C20: when the alarm interrupts an execution, execute_code returns
\* success = false with an error kind that no exception raised by the user
\* code itself produces.
C20_TimeoutKindDistinct ==
    (run.pc = "done" /\ run.timed_out /\ run.outcome = "returned")
        => /\ ~run.result.success
           /\ run.result.error \notin UserRaisedKinds

\* a call the alarm interrupted has returned a result
TimedOutResult ==
    /\ run.pc = "done"
    /\ run.timed_out
    /\ run.outcome = "returned"

\* C21: when the timeout interrupt aborts a call, wherever it lands between
\* arming and disarming the alarm, the stdout of the returned result is the
\* text the code wrote to the captured stream before the abort (stderr is
\* handled by the same lines).
C21_TimeoutKeepsOutput ==
    TimedOutResult => run.result.stdout = run.stdout_buffer

\* C25: every result execute_code returns, on the success path and on every
\* error path, has all the response fields, execution_time and memory_usage
\* included.
C25_AllFieldsOnEveryPath ==
    (run.pc = "done" /\ run.outcome = "returned")
        => FullResultKeys \subseteq run.result.keys

\* C26: the result of an execution that failed because an import was
\* refused has an error kind that no exception raised by the user code
\* itself produces.
C26_DeniedImportKindDistinct ==
    (ReturnedFullResult /\ run.last.cause = "policy")
        => /\ ~run.result.success
           /\ run.result.error \notin UserRaisedKinds

\* C27: whenever execution_context has been left - normally, by an
\* exception, or by an interrupt delivered while the alarm is armed -
\* is_executing is False and no alarm is armed.
C27_IdleAfterContext ==
    run.pc \in {"handlers", "done"} => (~run.is_executing /\ ~run.alarm)

\* C29: the variables execute_code returns and merges hold only names the
\* executed code bound during the call: preloaded modules, earlier session
\* bindings, inputs and private names are left out.
C29_OnlyNewlyBoundNames ==
    ReturnedFullResult
        => /\ DOMAIN run.result.variables \subseteq DOMAIN run.last.assigns
           /\ \A name \in DOMAIN run.session_vars :
                 \/ name \in DOMAIN run.last.assigns
                 \/ /\ name \in DOMAIN run.store_before
                    /\ run.session_vars[name] = run.store_before[name]

\* C30: after the merge of line 177 every public binding the code made is in
\* session_vars, over any earlier binding of the name: with its value when
\* the value is representable, as str(value) when it is not (a function, an
\* instance of a Python class, a value json.dumps rejects).
C30_NoPublicBindingDropped ==
    (run.pc = "build" /\ run.last.call = run.calls)
        => \A name \in DOMAIN run.last.assigns :
              ~startswith_(name)
                 => /\ name \in DOMAIN run.session_vars
                    /\ run.session_vars[name] =
                          IF Representable(name, run.last.assigns[name])
                          THEN run.last.assigns[name]
                          ELSE str(run.last.assigns[name])

\* signal.alarm has been called for the execution in progress and the
\* finally block has not been reached
AlarmSetForBody == run.pc \in {"ctx_save", "ctx_stdout", "ctx_stderr", "exec"}

\* C22: whatever timeout argument execution_context is given, the alarm is
\* armed, and for at most max_cpu_time seconds.
C22_ArmedWithinCeiling ==
    AlarmSetForBody => (run.armed_for > 0 /\ run.armed_for <= max_cpu_time)

\* C23: load_session_variables of a session id whose file is missing or is
\* no pickle does not raise and leaves session_vars empty, whatever it held
\* before.
C23_MissingOrCorruptGivesEmpty ==
    (proc.store_ret.op = "load" /\ proc.store_ret.found \in {Missing, Corrupt})
        => /\ ~proc.store_ret.raised
           /\ run.session_vars = EmptyDict

\* how many times hook occurs in the chain
Occurrences(chain, hook) ==
    Cardinality({ i \in 1..Len(chain) : chain[i] = hook })

\* C24: after any sequence of runtime constructions, patch_import_system,
\* unpatch_import_system and cleanup calls, every ImportHook instance occurs
\* at most once in sys.meta_path; after unpatch_import_system(hook) or the
\* cleanup of its runtime it occurs zero times; unregistering a hook that is
\* not registered leaves the chain unchanged.
C24_RegisteredAtMostOnce ==
    [][ /\ \A hook \in AllHooks' : Occurrences(meta_path', hook) <= 1
        /\ proc'.chain_ret.op \in {"unpatch", "cleanup"}
              => Occurrences(meta_path', proc'.chain_ret.hook) = 0
        /\ ( /\ proc'.chain_ret.op \in {"unpatch", "cleanup"}
             /\ ~proc'.chain_ret.was_registered )
              => meta_path' = meta_path ]_vars

\* a runtime's hook was removed by cleanup while a hook registered later
\* by patch_import_system and the other finders stay on the chain
C24_Witness ==
    /\ proc.chain_ret.op = "cleanup"
    /\ proc.chain_ret.was_registered
    /\ Occurrences(meta_path, proc.chain_ret.hook) = 0
    /\ \E hook \in proc.patched_hooks : Occurrences(meta_path, hook) = 1
    /\ Len(meta_path) = 3

C33_AttemptLogBounded ==
    /\ Len(attempted_imports) <= max_imports
    /\ Len(blocked_imports) <= max_imports

\* C34: in every reachable state of an ImportHook import_count is the length
\* of attempted_imports, blocked_imports is no longer than attempted_imports,
\* every name of blocked_imports is denied by the policy and every key of
\* import_cache is allowed by it.
C34_CountersAndLogsAgree ==
    /\ import_count = Len(attempted_imports)
    /\ Len(blocked_imports) <= Len(attempted_imports)
    /\ \A i \in 1..Len(blocked_imports) : ~is_module_allowed(blocked_imports[i])
    /\ \A fullname \in DOMAIN import_cache : is_module_allowed(fullname)

\* a name was resolved and cached, a name was denied, an allowed name was
\* not found by the chain, and the last call was refused by the limit check
C34_Witness ==
    /\ hook_ret.op = "find_spec"
    /\ hook_ret.outcome = "ImportLimitExceeded"
    /\ import_count = max_imports + 1
    /\ Len(blocked_imports) = 1
    /\ Cardinality(DOMAIN import_cache) = 1
    /\ \E i \in 1..Len(attempted_imports) :
          attempted_imports[i] \notin DOMAIN import_cache
          /\ is_module_allowed(attempted_imports[i])


\* C32: while one name is resolved through find_spec no hook's find_spec is
\* entered again: no two activations on the stack run on the same hook, and
\* the resolution enters each hook of the chain at most once, also with
\* several ImportHook instances on the chain.
C32_NeverReentered ==
    /\ \A i, j \in 1..Len(proc.frames) :
          i # j => proc.frames[i].hook # proc.frames[j].hook
    /\ \A i, j \in 1..Len(proc.entered) :
          i # j => proc.entered[i] # proc.entered[j]


\* C31: a SandboxRuntime construction in which a setrlimit call raised
\* OSError or ValueError completes, and by then each of the three ceilings
\* (address space, CPU time, file size) has been attempted, also the ones
\* after the call that failed.
C31_EveryCeilingAttempted ==
    /\ proc.install.pc \in {"signals", "restrict", "constructed"}
          => proc.install.attempted = CeilingSet
    /\ proc.install.pc = "constructed"
          => proc.install.handlers /\ proc.install.restricted


\* C35: in every execute_code call the globals handed to the executed code
\* map '__builtins__' to the filtered table get_safe_globals builds from
\* allowed_builtins, whatever session_vars and the variables argument hold.
C35_BuiltinsStayFiltered ==
    (GlobalsBuilt /\ ~run.direct)
        => run.globals["__builtins__"] = get_safe_globals["__builtins__"]


\* C36: every module object get_safe_globals places in the globals exposes
\* only the attributes the policy allows for it: for a module with an
\* explicit attribute list, every attribute reachable on the object is in
\* the list or is one every module object carries, as on the object
\* filter_module_attributes gives for the same module.
C36_PreloadedModulesFiltered ==
    proc.safe_globals.called =>
        \A module_name \in DOMAIN proc.safe_globals.modules :
            get_allowed_attributes(module_name).some =>
                \A a \in AttrNames :
                    heap[proc.safe_globals.modules[module_name]][a] # Absent
                        => \/ a \in get_allowed_attributes(module_name).val
                           \/ a \in ModuleTypeAttrs


\* the plots a capture step created, oldest first
CreatedByStep ==
    [i \in 1..(proc'.output.created - proc.output.created) |->
        proc.output.created + i]

\* the last n elements of a list
LastN(list, n) ==
    IF n >= Len(list) THEN list ELSE SubSeq(list, Len(list) - n + 1, Len(list))

\* C37: after every capture, get_plots and clear_plots call the handler
\* holds at most max_plots plots; a capture leaves the newest max_plots of
\* the plots held before and the plots it created, in order of creation
\* (the oldest are evicted first); get_plots returns a list equal to the
\* handler's, and a change of that list does not change the handler's list.
C37_PlotsBoundedFifoCopied ==
    [][ /\ Len(proc'.output.plots) <= max_plots
        /\ (proc'.output.op = "capture" /\ proc' # proc)
              => proc'.output.plots =
                   LastN(proc.output.plots \o CreatedByStep, max_plots)
        /\ (proc'.output.op = "get_plots" /\ proc' # proc)
              => /\ proc'.output.copy = proc.output.plots
                 /\ proc'.output.plots = proc.output.plots
        /\ (proc'.output.op \in {"mutate_copy", "mutate_plot"} /\ proc' # proc)
              => proc'.output.plots = proc.output.plots ]_vars

\* a capture went over the limit and the oldest plot was evicted; a list
\* returned by get_plots before still holds it, and was changed by its
\* caller since
C37_Witness ==
    /\ proc.output.op = "capture"
    /\ Len(proc.output.plots) = max_plots
    /\ proc.output.plots[1] = 2
    /\ proc.output.plots[max_plots] = max_plots + 1
    /\ proc.output.copy = <<1, 0>>


\* the path lies inside the directory: its first components are the
\* directory's
InsideDir(abs_path, dir) ==
    /\ Len(abs_path) >= Len(dir)
    /\ SubSeq(abs_path, 1, Len(dir)) = dir

InsideAllowedDir(abs_path) ==
    \E allowed_dir \in allowed_dirs : InsideDir(abs_path, allowed_dir)

\* C38: safe_open opens a file only when its absolute path lies inside
\* /tmp, /workspace or /sandbox/data and the mode is a permitted one; for
\* every other path it raises PermissionError, and for every other mode
\* ValueError, and the file is not opened.
C38_OpensOnlyInsideAllowedDirs ==
    proc.open_ret.op = "safe_open" =>
        /\ proc.open_ret.outcome \in {"opened", "FileNotFoundError"}
              => /\ InsideAllowedDir(proc.open_ret.abs_path)
                 /\ proc.open_ret.mode \in safe_modes
        /\ ~InsideAllowedDir(proc.open_ret.abs_path)
              => proc.open_ret.outcome = "PermissionError"
        /\ (InsideAllowedDir(proc.open_ret.abs_path)
               /\ proc.open_ret.mode \notin safe_modes)
              => proc.open_ret.outcome = "ValueError"

====
